---- MODULE Spec2Model ----
(***************************************************************************)
(* Benchmark alignment and caching engine of mingdom/capital               *)
(* (src/benchmarks.py): the persisted cache document, the full-month       *)
(* refresh, the aligned partial returns and the merged series.             *)
(*                                                                         *)
(* Representation.                                                         *)
(*   date            <<year, month, day>>; str(date) ("YYYY-MM-DD") is the *)
(*                   same three fields, so an ISO string is this tuple.    *)
(*   pd.Period (M)   its ordinal year*12 + (month-1), an integer.          *)
(*   str(period)     <<year, month>>, the two fields of "YYYY-MM".         *)
(*   float           fixed point, 1/Scale units (a return of 0.02 is 200). *)
(*   dict            a function whose DOMAIN is the set of keys.           *)
(*   None / a value  <<>> / <<value>> (Some).                              *)
(***************************************************************************)
EXTENDS Integers, Sequences, FiniteSets, TLC

VARIABLES
    today,      \* date.today() of the process
    exists,     \* CACHE_PATH.exists()
    file,       \* the JSON document stored at CACHE_PATH (<<>> when absent)
    call,       \* the last operation and its arguments
    fetches,    \* provider requests (yf.Ticker(..).history) made by the last operation
    saves,      \* number of _save_cache calls made by the last operation
    steps,      \* locals of each pass of ensure_aligned_partials' loop in the last operation
    result      \* what the last operation returned

vars == <<today, exists, file, call, fetches, saves, steps, result>>

----------------------------------------------------------------------------
(* Bounds of the model *)

\* number of calendar months of the modelled time line, from Epoch
NumMonths == 3

\* fixed-point unit of a float return or ratio
Scale == 10000
None == <<>>
Some(x) == <<x>>
The(o) == o[1]
\* str() of the first month of the time line
Epoch == <<2024, 2>>

----------------------------------------------------------------------------
(* Calendar: datetime.date, pd.Period(freq="M"), pd.offsets *)

IsLeap(y) == (y % 4 = 0 /\ y % 100 # 0) \/ y % 400 = 0

DaysInMonth(y, m) ==
    IF m = 2 THEN (IF IsLeap(y) THEN 29 ELSE 28)
    ELSE IF m \in {4, 6, 9, 11} THEN 30 ELSE 31

\* pd.Period(d, freq="M")
PeriodOf(d) == d[1] * 12 + (d[2] - 1)

\* str(p) for a monthly period: "YYYY-MM"
PeriodStr(p) == <<p \div 12, (p % 12) + 1>>

\* pd.Period("YYYY-MM")
ParsePeriod(k) == k[1] * 12 + (k[2] - 1)

\* first and last day of a monthly period
MonthStart(p) == <<p \div 12, (p % 12) + 1, 1>>
MonthEndDate(p) == <<p \div 12, (p % 12) + 1, DaysInMonth(p \div 12, (p % 12) + 1)>>

\* date comparison
DateLT(a, b) ==
    \/ a[1] < b[1]
    \/ a[1] = b[1] /\ a[2] < b[2]
    \/ a[1] = b[1] /\ a[2] = b[2] /\ a[3] < b[3]
DateLE(a, b) == a = b \/ DateLT(a, b)

\* a mutation of PrevDay: the year is kept on the step back from 1 January
PrevDay_same_year(d) ==
    IF d[3] > 1 THEN <<d[1], d[2], d[3] - 1>>
    ELSE IF d[2] > 1 THEN <<d[1], d[2] - 1, DaysInMonth(d[1], d[2] - 1)>>
    ELSE <<d[1], 12, 31>>

\* d - timedelta(days=1)
PrevDay(d) ==
    IF d[3] > 1 THEN <<d[1], d[2], d[3] - 1>>
    ELSE IF d[2] > 1 THEN <<d[1], d[2] - 1, DaysInMonth(d[1], d[2] - 1)>>
    ELSE <<d[1] - 1, 12, 31>>

\* a mutation of last_complete_month: the month containing today
last_complete_month_current(t) == PeriodOf(t)

\* benchmarks.last_complete_month
last_complete_month(t) ==
    LET first_of_month == <<t[1], t[2], 1>>
        last_day_prev_month == PrevDay(first_of_month)
    IN  PeriodOf(last_day_prev_month)

----------------------------------------------------------------------------
(* dict helpers *)

EmptyDict == [k \in {} |-> 0]
Put(d, k, v) == [x \in (DOMAIN d) \cup {k} |-> IF x = k THEN v ELSE d[x]]
Get(d, k, default) == IF k \in DOMAIN d THEN d[k] ELSE default

----------------------------------------------------------------------------
(* The modelled universe: symbols, months, dates *)

Symbols == {"SPY", "QQQ"}

Period0 == ParsePeriod(Epoch)
Months == Period0 .. (Period0 + NumMonths - 1)

\* the days on which the process is run: the 12th of every month, and the 21st
\* of the second
Timeline == {<<PeriodStr(p)[1], PeriodStr(p)[2], 12>> : p \in Months}
                \cup {<<PeriodStr(Period0 + 1)[1], PeriodStr(Period0 + 1)[2], 21>>}

\* days of a month with a daily bar (trading days); the month's last day is one
TradingDays(p) == {<<PeriodStr(p)[1], PeriodStr(p)[2], d>> : d \in {2, 12, 20}}
                      \cup {MonthEndDate(p)}

RECURSIVE RangeSeq(_, _)
RangeSeq(a, b) == IF a > b THEN <<>> ELSE <<a>> \o RangeSeq(a + 1, b)

RECURSIVE Reverse(_)
Reverse(s) == IF s = <<>> THEN <<>> ELSE Reverse(Tail(s)) \o <<Head(s)>>

\* lists of requested months: none, one month, the whole range ascending and
\* descending, a month twice
AllMonths == RangeSeq(Period0, Period0 + NumMonths - 1)
ReqLists == {<<>>, AllMonths, Reverse(AllMonths), <<Period0 + 1>>, <<Period0 + 1, Period0 + 1>>,
             <<Period0 + NumMonths - 1>>}

SymLists == {<<>>, <<"SPY">>, <<"SPY", "QQQ">>}

----------------------------------------------------------------------------
(* The market-data provider (yfinance): a fixed price history, served with *)
(* failures, gaps and extra bars                                           *)

\* adjusted close of a symbol on a day, in cents
Close(sym, d) ==
    (IF sym = "SPY" THEN 10000 ELSE 20000) + 300 * (PeriodOf(d) - Period0) + 7 * d[3]

\* the monthly bar of period p as served on day t: stamped with the first of the
\* month, closing at the month's last close so far
MonthlyBar(sym, p, t) ==
    [ts |-> MonthStart(p),
     close |-> Close(sym, IF DateLT(t, MonthEndDate(p)) THEN t ELSE MonthEndDate(p))]

RECURSIVE MonthlyBarsFrom(_, _, _, _)
MonthlyBarsFrom(sym, a, b, t) ==
    IF a > b THEN <<>> ELSE <<MonthlyBar(sym, a, t)>> \o MonthlyBarsFrom(sym, a + 1, b, t)

MonthlyKinds == {"raise", "empty", "all", "more", "tail"}

\* what history(start, end, interval="1mo") answers on day t: the bars stamped
\* from start to before end, of the months begun by t ("all"), with the bar of
\* the month before start as well ("more"), or only the last two of them
\* ("tail")
MonthlyHistory(kind, sym, start, end, t) ==
    LET a == PeriodOf(start)
        b == IF PeriodOf(t) < PeriodOf(end) THEN PeriodOf(t) ELSE PeriodOf(end)
    IN  CASE kind = "all" -> MonthlyBarsFrom(sym, a, b, t)
          [] kind = "more" -> MonthlyBarsFrom(sym, a - 1, PeriodOf(t), t)
          [] kind = "tail" -> MonthlyBarsFrom(sym, IF b - 1 > a THEN b - 1 ELSE a, b, t)
          [] OTHER -> <<>>

----------------------------------------------------------------------------
(* fetch_monthly_returns *)

\* last / first - 1.0 in fixed point
Ratio(last, first) == (last * Scale) \div first - Scale

\* closes.pct_change().dropna(), the index converted with to_period("M")
RECURSIVE PctChange(_, _)
PctChange(bars, i) ==
    IF i > Len(bars) THEN <<>>
    ELSE <<[period |-> PeriodOf(bars[i].ts), value |-> Ratio(bars[i].close, bars[i - 1].close)]>>
             \o PctChange(bars, i + 1)

\* rets[(rets.index >= start_period) & (rets.index <= end_period)]
InWindow(rets, start_period, end_period) ==
    SelectSeq(rets, LAMBDA r : r.period >= start_period /\ r.period <= end_period)


\* the request fetch_monthly_returns sends to the provider:
\* to_timestamp("M") is the last day of the month at midnight, so that
\* start = (it - MonthBegin(1)) is the first day of start_period and
\* end + MonthEnd(1) the last day of the month after end_period
MonthlyRequest(symbol, start_period, end_period) ==
    [interval |-> "1mo", symbol |-> symbol,
     start |-> MonthStart(start_period), end |-> MonthEndDate(end_period + 1)]

\* fetch_monthly_returns, from the provider's answer on
FromMonthlyHistory(kind, hist, start_period, end_period) ==
    IF kind = "raise" THEN <<>>
    ELSE IF hist = <<>> THEN <<>>
    ELSE InWindow(PctChange(hist, 2), start_period, end_period)

\* fetch_monthly_returns: kind is the provider's behaviour on this request
fetch_monthly_returns(kind, symbol, start_period, end_period, t) ==
    FromMonthlyHistory(kind,
        MonthlyHistory(kind, symbol, MonthStart(start_period), MonthEndDate(end_period + 1), t),
        start_period, end_period)

----------------------------------------------------------------------------
(* _load_cache, ensure_benchmark_cache *)

\* a mutation of LoadCache: only the full-month maps are loaded
LoadCache_months(ex, doc) ==
    IF ex THEN [k \in DOMAIN doc \ {"_aligned", "_meta"} |-> doc[k]] ELSE EmptyDict

\* _load_cache
LoadCache(ex, doc) == IF ex THEN doc ELSE EmptyDict

SeqMin(s) == CHOOSE x \in {s[i] : i \in 1..Len(s)} : \A j \in 1..Len(s) : x <= s[j]
SeqMax(s) == CHOOSE x \in {s[i] : i \in 1..Len(s)} : \A j \in 1..Len(s) : x >= s[j]

\* for p, v in series.items(): if p <= lcm: sym_cache[str(p)] = float(v)
RECURSIVE StoreSeries(_, _, _, _)
StoreSeries(sym_cache, series, i, lcm) ==
    IF i > Len(series) THEN sym_cache
    ELSE StoreSeries(
            IF series[i].period <= lcm
            THEN Put(sym_cache, PeriodStr(series[i].period), series[i].value)
            ELSE sym_cache,
            series, i + 1, lcm)

\* a mutation of Needed: the months after lcm are kept
Needed_all(needed_months, lcm) == needed_months

\* [p for p in needed_months if p <= lcm]
Needed(needed_months, lcm) == SelectSeq(needed_months, LAMBDA p : p <= lcm)

\* a mutation of Missing: every needed month counts as missing
Missing_all(needed, sym_cache) == needed

\* [p for p in needed if str(p) not in sym_cache]
Missing(needed, sym_cache) == SelectSeq(needed, LAMBDA p : PeriodStr(p) \notin DOMAIN sym_cache)

\* one pass of the loop of ensure_benchmark_cache for sym, its missing months
\* known: the symbol's new map and the requests made
\* a mutation of EnsureSymbol: one fetch per missing month
EnsureSymbol_each(sym_cache, missing, sym, lcm, kind, t) ==
    [sym_cache |-> IF missing = <<>> THEN sym_cache
                   ELSE StoreSeries(sym_cache,
                            fetch_monthly_returns(kind, sym, SeqMin(missing), SeqMax(missing), t),
                            1, lcm),
     fetches |-> [i \in 1..Len(missing) |-> MonthlyRequest(sym, missing[i], missing[i])]]

EnsureSymbol(sym_cache, missing, sym, lcm, kind, t) ==
    IF missing = <<>>
    THEN [sym_cache |-> sym_cache, fetches |-> <<>>]
    ELSE [sym_cache |-> StoreSeries(sym_cache,
                            fetch_monthly_returns(kind, sym, SeqMin(missing), SeqMax(missing), t),
                            1, lcm),
          fetches |-> <<MonthlyRequest(sym, SeqMin(missing), SeqMax(missing))>>]

\* a mutation of EnsureSymbolIn: the symbol's map is rebuilt from the fetch
EnsureSymbolIn_fresh(sym_cache, needed, sym, lcm, kind, t) ==
    EnsureSymbol(EmptyDict, Missing(needed, sym_cache), sym, lcm, kind, t)

EnsureSymbolIn(sym_cache, needed, sym, lcm, kind, t) ==
    EnsureSymbol(sym_cache, Missing(needed, sym_cache), sym, lcm, kind, t)

\* the loop over symbols of ensure_benchmark_cache, from position i on;
\* kinds[i] is the provider's behaviour on the fetch made for symbols[i]
RECURSIVE EnsureLoop(_, _, _, _, _, _, _, _)
\* a mutation of EnsureStep: a fetch that stores nothing ends the loop
EnsureStep_abort(cache, reqs, symbols, i, needed, lcm, kinds, t, pass) ==
    IF pass.fetches # <<>> /\ pass.sym_cache = Get(cache, symbols[i], EmptyDict)
    THEN [cache |-> cache, fetches |-> reqs \o pass.fetches, saved |-> TRUE]
    ELSE EnsureLoop(Put(cache, symbols[i], pass.sym_cache), reqs \o pass.fetches,
                    symbols, i + 1, needed, lcm, kinds, t)

EnsureStep(cache, reqs, symbols, i, needed, lcm, kinds, t, pass) ==
    EnsureLoop(Put(cache, symbols[i], pass.sym_cache), reqs \o pass.fetches,
               symbols, i + 1, needed, lcm, kinds, t)
EnsureLoop(cache, reqs, symbols, i, needed, lcm, kinds, t) ==
    IF i > Len(symbols) THEN [cache |-> cache, fetches |-> reqs, saved |-> TRUE]
    ELSE EnsureStep(cache, reqs, symbols, i, needed, lcm, kinds, t,
                    EnsureSymbolIn(Get(cache, symbols[i], EmptyDict), needed, symbols[i],
                                   lcm, kinds[i], t))

\* a mutation of EnsureLoaded: the early return is dropped
EnsureLoaded_always(cache, symbols, needed, lcm, kinds, t) ==
    EnsureLoop(cache, <<>>, symbols, 1, needed, lcm, kinds, t)

\* ensure_benchmark_cache after the load: needed is the list filtered by lcm
EnsureLoaded(cache, symbols, needed, lcm, kinds, t) ==
    IF needed = <<>>
    THEN [cache |-> cache, fetches |-> <<>>, saved |-> FALSE]
    ELSE EnsureLoop(cache, <<>>, symbols, 1, needed, lcm, kinds, t)

EnsureWithLcm(cache, symbols, needed_months, lcm, kinds, t) ==
    EnsureLoaded(cache, symbols, Needed(needed_months, lcm), lcm, kinds, t)

\* ensure_benchmark_cache: the document returned, the provider requests made,
\* and whether _save_cache wrote it
ensure_benchmark_cache(ex, doc, symbols, needed_months, kinds, t) ==
    EnsureWithLcm(LoadCache(ex, doc), symbols, needed_months, last_complete_month(t), kinds, t)

\* whether ensure_benchmark_cache will fetch for symbols[i] (it has a missing month)
WillFetch(ex, doc, symbols, i, needed_months, t) ==
    Missing(Needed(needed_months, last_complete_month(t)),
            Get(LoadCache(ex, doc), symbols[i], EmptyDict)) # <<>>

----------------------------------------------------------------------------
(* get_benchmark_series *)

\* pd.Series(...).sort_index(): ascending by period, insertion sort
RECURSIVE InsertSorted(_, _)
InsertSorted(s, e) ==
    IF s = <<>> THEN <<e>>
    ELSE IF e.period < Head(s).period THEN <<e>> \o s
    ELSE <<Head(s)>> \o InsertSorted(Tail(s), e)

\* a mutation of sort_index: the series keeps the order of its construction
sort_index_none(s) == s

RECURSIVE sort_index(_)
sort_index(s) == IF s = <<>> THEN <<>> ELSE InsertSorted(sort_index(Tail(s)), Head(s))

\* a mutation of Project: a month without a value is given the value 0
RECURSIVE Project_zero(_, _, _)
Project_zero(values, months, i) ==
    IF i > Len(months) THEN <<>>
    ELSE <<[period |-> months[i],
            value |-> IF months[i] \in DOMAIN values THEN values[months[i]] ELSE 0]>>
             \o Project_zero(values, months, i + 1)

\* for m in months: if m in values: out.append((m, values[m]))
RECURSIVE Project(_, _, _)
Project(values, months, i) ==
    IF i > Len(months) THEN <<>>
    ELSE (IF months[i] \in DOMAIN values
          THEN <<[period |-> months[i], value |-> values[months[i]]]>>
          ELSE <<>>) \o Project(values, months, i + 1)

\* get_benchmark_series, from the result e of ensure_benchmark_cache on
SeriesOf(mapping, months) ==
    sort_index(Project([p \in {ParsePeriod(k) : k \in DOMAIN mapping} |-> mapping[PeriodStr(p)]],
                       months, 1))

ProjectEnsured(e, symbol, months) ==
    [series |-> SeriesOf(Get(e.cache, symbol, EmptyDict), months),
     cache |-> e.cache, fetches |-> e.fetches, saved |-> e.saved]

\* get_benchmark_series
get_benchmark_series(ex, doc, symbol, months, kinds, t) ==
    ProjectEnsured(ensure_benchmark_cache(ex, doc, <<symbol>>, months, kinds, t), symbol, months)

----------------------------------------------------------------------------
(* The provider's daily history *)

DailyKinds == {"raise", "empty", "all", "zero", "outside"}

\* the daily bars of a set of days, ascending by date
RECURSIVE DayBars(_, _)
Earliest(days) == CHOOSE x \in days : \A y \in days : DateLE(x, y)
BarsFrom(sym, days, d) == <<[ts |-> d, close |-> Close(sym, d)]>> \o DayBars(sym, days \ {d})
DayBars(sym, days) == IF days = {} THEN <<>> ELSE BarsFrom(sym, days, Earliest(days))

\* the answer built from the bars served
Served(kind, bars) ==
    [tz |-> IF kind = "tz" THEN Some("America/New_York") ELSE None,
     bars |-> IF kind \in {"raise", "empty"} THEN <<>>
              ELSE IF kind = "zero" /\ bars # <<>>
                   THEN <<[bars[1] EXCEPT !.close = 0]>> \o Tail(bars)
                   ELSE bars]

InRange(days, start, end) == {d \in days : DateLE(start, d) /\ DateLE(d, end)}

\* what history(start, end + 1 day, interval="1d") answers: "all" and "tz" the
\* trading days of [start, end] (tz: under a tz-aware index), "zero" the same
\* with a first close of 0, "outside" only trading days of the months outside
\* [start, end]
DailyHistory(kind, sym, start, end) ==
    Served(kind,
           DayBars(sym,
                   IF kind = "outside"
                   THEN UNION {TradingDays(p) : p \in PeriodOf(start)..PeriodOf(end)}
                            \ InRange(UNION {TradingDays(p) : p \in PeriodOf(start)..PeriodOf(end)}, start, end)
                   ELSE InRange(UNION {TradingDays(p) : p \in PeriodOf(start)..PeriodOf(end)}, start, end)))

----------------------------------------------------------------------------
(* _first_trading_close, _last_trading_close, fetch_partial_return *)

\* a mutation of TzNaive: tz_convert(None) for tz_localize(None), the index is
\* moved to UTC before the zone is dropped, so that a midnight east of
\* Greenwich falls on the day before
TzNaive_utc(series) ==
    IF series.tz = Some("Asia/Tokyo")
    THEN [tz |-> None,
          bars |-> [i \in 1..Len(series.bars) |->
                       [series.bars[i] EXCEPT !.ts = PrevDay(series.bars[i].ts)]]]
    ELSE [series EXCEPT !.tz = None]

\* series.index.tz_localize(None) when the index is tz-aware: the wall-clock
\* dates are kept, the zone is dropped
TzNaive(series) == IF series.tz # None THEN [series EXCEPT !.tz = None] ELSE series

\* _first_trading_close
FirstOf(s) == IF s # <<>> THEN Some(s[1].close) ELSE None
first_trading_close(series, start) ==
    FirstOf(SelectSeq(TzNaive(series).bars, LAMBDA b : DateLE(start, b.ts)))

\* _last_trading_close
LastOf(s) == IF s # <<>> THEN Some(s[Len(s)].close) ELSE None
last_trading_close(series, end) ==
    LastOf(SelectSeq(TzNaive(series).bars, LAMBDA b : DateLE(b.ts, end)))

\* the request fetch_partial_return sends to the provider
DailyRequest(symbol, start_date, end_date) ==
    [interval |-> "1d", symbol |-> symbol, start |-> start_date, end |-> end_date]

\* if first is None or last is None or first == 0: return None
FromCloses(first, last) ==
    IF first = None \/ last = None \/ first = Some(0) THEN None
    ELSE Some(Ratio(The(last), The(first)))

\* fetch_partial_return, from the provider's answer on
FromDailyHistory(kind, hist, start_ts, end_ts) ==
    IF kind = "raise" THEN None
    ELSE IF hist.bars = <<>> THEN None
    ELSE FromCloses(first_trading_close(hist, start_ts), last_trading_close(hist, end_ts))

\* a mutation of fetch_partial_return: a fetch without a return yields 0
fetch_partial_return_zero(kind, symbol, start_date, end_date) ==
    IF FromDailyHistory(kind, DailyHistory(kind, symbol, start_date, end_date),
                        start_date, end_date) = None
    THEN Some(0)
    ELSE FromDailyHistory(kind, DailyHistory(kind, symbol, start_date, end_date),
                          start_date, end_date)

\* fetch_partial_return: None or the return
fetch_partial_return(kind, symbol, start_date, end_date) ==
    IF DateLT(end_date, start_date) THEN None
    ELSE FromDailyHistory(kind, DailyHistory(kind, symbol, start_date, end_date),
                          start_date, end_date)

\* the provider requests fetch_partial_return makes
PartialRequests(symbol, start_date, end_date) ==
    IF DateLT(end_date, start_date) THEN <<>>
    ELSE <<DailyRequest(symbol, start_date, end_date)>>

----------------------------------------------------------------------------
(* ensure_aligned_partials *)

\* the record stored under "_aligned"[symbol]["YYYY-MM"]
\* a mutation of PartialEntry: start and end change places
PartialEntry_swapped(start, end, r, as_of) ==
    [start |-> end, end |-> start, return |-> r, as_of |-> as_of]

PartialEntry(start, end, r, as_of) ==
    [start |-> start, end |-> end, return |-> r, as_of |-> as_of]

\* a mutation of NeedsUpdate: only an absent entry is refreshed
NeedsUpdate_absent(existing, current_end) == existing = None

\* needs_update = existing is None or existing.get("end") != str(current_end)
NeedsUpdate(existing, current_end) == existing = None \/ The(existing).end # current_end

\* existing = sym_aligned.get(key_cur)
Existing(sym_aligned, key_cur) ==
    IF key_cur \in DOMAIN sym_aligned THEN Some(sym_aligned[key_cur]) ELSE None

\* the inception partial of one symbol: the map after it, the request made,
\* the value fetched
InceptionStored(sym_aligned, sym, inception_date, inc_end_date, key_inc, inc_absent, kind, r) ==
    [sym_aligned |-> IF inc_absent /\ r # None
                     THEN Put(sym_aligned, key_inc,
                              PartialEntry(inception_date, inc_end_date, The(r), inc_end_date))
                     ELSE sym_aligned,
     fetches |-> IF inc_absent THEN PartialRequests(sym, inception_date, inc_end_date) ELSE <<>>,
     inc_fetch |-> inc_absent,
     inc_kind |-> IF inc_absent THEN kind ELSE "unused",
     r_inc |-> r]

InceptionPartial(sym_aligned, sym, inception_date, kind) ==
    InceptionStored(sym_aligned, sym, inception_date,
        MonthEndDate(PeriodOf(inception_date)),
        PeriodStr(PeriodOf(inception_date)),
        PeriodStr(PeriodOf(inception_date)) \notin DOMAIN sym_aligned,
        kind,
        IF PeriodStr(PeriodOf(inception_date)) \notin DOMAIN sym_aligned
        THEN fetch_partial_return(kind, sym, inception_date, MonthEndDate(PeriodOf(inception_date)))
        ELSE None)

\* the current partial of one symbol, after its inception partial inc
CurrentStored(inc, sym, cm_start_date, current_end, key_cur, existing, needs_update, kind, r) ==
    [sym_aligned |-> IF needs_update /\ r # None
                     THEN Put(inc.sym_aligned, key_cur,
                              PartialEntry(cm_start_date, current_end, The(r), current_end))
                     ELSE inc.sym_aligned,
     fetches |-> inc.fetches
                    \o (IF needs_update THEN PartialRequests(sym, cm_start_date, current_end) ELSE <<>>),
     step |-> [sym |-> sym,
               inc_fetch |-> inc.inc_fetch, inc_kind |-> inc.inc_kind, r_inc |-> inc.r_inc,
               existing |-> existing,
               cur_fetch |-> needs_update, cur_kind |-> IF needs_update THEN kind ELSE "unused",
               r_cur |-> r]]

CurrentChecked(inc, sym, current_end, existing, needs_update, kind) ==
    CurrentStored(inc, sym, MonthStart(PeriodOf(current_end)), current_end,
        PeriodStr(PeriodOf(current_end)), existing, needs_update, kind,
        IF needs_update
        THEN fetch_partial_return(kind, sym, MonthStart(PeriodOf(current_end)), current_end)
        ELSE None)

CurrentExisting(inc, sym, current_end, existing, kind) ==
    CurrentChecked(inc, sym, current_end, existing, NeedsUpdate(existing, current_end), kind)

CurrentPartial(inc, sym, current_end, kind) ==
    CurrentExisting(inc, sym, current_end,
        Existing(inc.sym_aligned, PeriodStr(PeriodOf(current_end))), kind)

\* one pass of the loop body for one symbol: the symbol's new "_aligned" map,
\* the requests made and the values of the locals
AlignSymbol(sym_aligned, sym, inception_date, current_end, kind_inc, kind_cur) ==
    CurrentPartial(InceptionPartial(sym_aligned, sym, inception_date, kind_inc),
                   sym, current_end, kind_cur)

\* the loop over symbols of ensure_aligned_partials, from position i on
RECURSIVE AlignLoop(_, _, _, _, _, _, _, _, _)
AlignStep(aligned, reqs, acc, symbols, i, inception_date, current_end, kinds_inc, kinds_cur, a) ==
    AlignLoop(Put(aligned, symbols[i], a.sym_aligned), reqs \o a.fetches, Append(acc, a.step),
              symbols, i + 1, inception_date, current_end, kinds_inc, kinds_cur)
AlignLoop(aligned, reqs, acc, symbols, i, inception_date, current_end, kinds_inc, kinds_cur) ==
    IF i > Len(symbols) THEN [aligned |-> aligned, fetches |-> reqs, steps |-> acc]
    ELSE AlignStep(aligned, reqs, acc, symbols, i, inception_date, current_end,
                   kinds_inc, kinds_cur,
                   AlignSymbol(Get(aligned, symbols[i], EmptyDict), symbols[i], inception_date,
                               current_end, kinds_inc[i], kinds_cur[i]))

\* a mutation of WithAligned: the document is rebuilt from the two sections
WithAligned_only(cache, r, t) ==
    [cache |-> Put(Put(EmptyDict, "_aligned", r.aligned), "_meta",
                   Put(Get(cache, "_meta", EmptyDict), "last_updated", t)),
     fetches |-> r.fetches, steps |-> r.steps, saved |-> TRUE]

\* cache["_aligned"] = aligned; cache.setdefault("_meta", {})["last_updated"] = now
WithAligned(cache, r, t) ==
    [cache |-> Put(Put(cache, "_aligned", r.aligned), "_meta",
                   Put(Get(cache, "_meta", EmptyDict), "last_updated", t)),
     fetches |-> r.fetches, steps |-> r.steps, saved |-> TRUE]

AlignLoaded(cache, symbols, inception_date, current_end, kinds_inc, kinds_cur, t) ==
    WithAligned(cache,
        AlignLoop(Get(cache, "_aligned", EmptyDict), <<>>, <<>>, symbols, 1,
                  inception_date, current_end, kinds_inc, kinds_cur),
        t)

\* ensure_aligned_partials: the document returned (and saved), the requests
\* made, the locals of each pass
ensure_aligned_partials(ex, doc, symbols, inception_date, current_end, kinds_inc, kinds_cur, t) ==
    AlignLoaded(LoadCache(ex, doc), symbols, inception_date, current_end, kinds_inc, kinds_cur, t)

----------------------------------------------------------------------------
(* get_aligned_benchmark_series *)

\* a mutation of Resolve: the full-month value is preferred to the partial
RECURSIVE Resolve_full_first(_, _, _, _)
Resolve_full_first(aligned, monthly_map, months, i) ==
    IF i > Len(months) THEN <<>>
    ELSE (IF PeriodStr(months[i]) \in DOMAIN monthly_map
          THEN <<[period |-> months[i], value |-> monthly_map[PeriodStr(months[i])]]>>
          ELSE IF PeriodStr(months[i]) \in DOMAIN aligned
          THEN <<[period |-> months[i], value |-> aligned[PeriodStr(months[i])].return]>>
          ELSE <<>>) \o Resolve_full_first(aligned, monthly_map, months, i + 1)

\* for m in months: the partial if present, else the full month, else skip
RECURSIVE Resolve(_, _, _, _)
Resolve(aligned, monthly_map, months, i) ==
    IF i > Len(months) THEN <<>>
    ELSE (IF PeriodStr(months[i]) \in DOMAIN aligned
          THEN <<[period |-> months[i], value |-> aligned[PeriodStr(months[i])].return]>>
          ELSE IF PeriodStr(months[i]) \in DOMAIN monthly_map
          THEN <<[period |-> months[i], value |-> monthly_map[PeriodStr(months[i])]]>>
          ELSE <<>>) \o Resolve(aligned, monthly_map, months, i + 1)

\* get_aligned_benchmark_series, from the results e of ensure_benchmark_cache
\* and a of ensure_aligned_partials on; monthly_map is read back from the file
\* ensure_aligned_partials saved
Merged(e, a, symbol, months) ==
    [series |-> sort_index(Resolve(Get(Get(a.cache, "_aligned", EmptyDict), symbol, EmptyDict),
                                   Get(LoadCache(TRUE, a.cache), symbol, EmptyDict),
                                   months, 1)),
     cache |-> a.cache,
     fetches |-> e.fetches \o a.fetches,
     steps |-> a.steps,
     saves |-> (IF e.saved THEN 1 ELSE 0) + 1]

AfterEnsure(ex, doc, e, symbol, months, inception_date, current_end, kind_inc, kind_cur, t) ==
    Merged(e,
           ensure_aligned_partials(ex \/ e.saved, IF e.saved THEN e.cache ELSE doc, <<symbol>>,
                                   inception_date, current_end, <<kind_inc>>, <<kind_cur>>, t),
           symbol, months)

\* get_aligned_benchmark_series
get_aligned_benchmark_series(ex, doc, symbol, months, inception_date, current_end, kind_m, kind_inc, kind_cur, t) ==
    AfterEnsure(ex, doc, ensure_benchmark_cache(ex, doc, <<symbol>>, months, <<kind_m>>, t),
                symbol, months, inception_date, current_end, kind_inc, kind_cur, t)

----------------------------------------------------------------------------
(* The process: commands run one after the other as the days pass *)

\* the portfolio's first trading date and its last data point on day t
InceptionDates == {<<Epoch[1], Epoch[2], 10>>}
CurrentEnds(t) == {t}

\* the record of a call; repeat: the call before it, on the same day, was the
\* same operation with the same arguments
Call(op, symbols, months, inception_date, current_end) ==
    [op |-> op, symbols |-> symbols, months |-> months,
     inception_date |-> inception_date, current_end |-> current_end,
     repeat |-> /\ call.op = op
                /\ call.symbols = symbols
                /\ call.months = months
                /\ call.inception_date = inception_date
                /\ call.current_end = current_end]

NoDate == <<>>

\* provider behaviours on the monthly fetches of a call: one of mkinds per
\* symbol that has a missing month, "unused" for the others
MonthlyChoices(symbols, months, mkinds) ==
    {k \in [1..Len(symbols) -> mkinds \cup {"unused"}] :
        \A i \in 1..Len(symbols) :
            (k[i] = "unused") <=> ~WillFetch(exists, file, symbols, i, months, today)}

\* provider behaviours on the daily fetches: one of dkinds, "unused" where the
\* stored entry rules the fetch out
IncChoices(symbols, inception_date, dkinds) ==
    {k \in [1..Len(symbols) -> dkinds \cup {"unused"}] :
        \A i \in 1..Len(symbols) :
            (k[i] = "unused") <=>
                PeriodStr(PeriodOf(inception_date)) \in
                    DOMAIN Get(Get(LoadCache(exists, file), "_aligned", EmptyDict), symbols[i], EmptyDict)}

CurChoices(symbols, current_end, dkinds) ==
    {k \in [1..Len(symbols) -> dkinds \cup {"unused"}] :
        \A i \in 1..Len(symbols) :
            (k[i] = "unused") <=>
                LET sa == Get(Get(LoadCache(exists, file), "_aligned", EmptyDict), symbols[i], EmptyDict)
                    key == PeriodStr(PeriodOf(current_end))
                IN  key \in DOMAIN sa /\ sa[key].end = current_end}

Init ==
    /\ today = CHOOSE d \in Timeline : \A e \in Timeline : DateLE(d, e)
    /\ exists = FALSE
    /\ file = EmptyDict
    /\ call = [op |-> "init", symbols |-> <<>>, months |-> <<>>,
               inception_date |-> NoDate, current_end |-> NoDate, repeat |-> FALSE]
    /\ fetches = <<>>
    /\ saves = 0
    /\ steps = <<>>
    /\ result = <<>>

\* days pass between two commands
Tick ==
    /\ \E d \in Timeline :
          /\ DateLT(today, d)
          /\ \A e \in Timeline : DateLT(today, e) => DateLE(d, e)
          /\ today' = d
    /\ call' = [op |-> "tick", symbols |-> <<>>, months |-> <<>>,
                inception_date |-> NoDate, current_end |-> NoDate, repeat |-> FALSE]
    /\ fetches' = <<>>
    /\ saves' = 0
    /\ steps' = <<>>
    /\ result' = <<>>
    /\ UNCHANGED <<exists, file>>

\* a call of ensure_benchmark_cache(symbols, months)
EnsureBenchmarkCacheOn(symlists, reqlists, mkinds) ==
    \E symbols \in symlists, months \in reqlists :
      \E kinds \in MonthlyChoices(symbols, months, mkinds) :
        \E r \in {ensure_benchmark_cache(exists, file, symbols, months, kinds, today)} :
            /\ call' = Call("ensure_benchmark_cache", symbols, months, NoDate, NoDate)
            /\ exists' = (exists \/ r.saved)
            /\ file' = IF r.saved THEN r.cache ELSE file
            /\ fetches' = r.fetches
            /\ saves' = IF r.saved THEN 1 ELSE 0
            /\ steps' = <<>>
            /\ result' = r.cache
            /\ UNCHANGED today

\* a call of get_benchmark_series(symbol, months)
GetBenchmarkSeriesOn(syms, reqlists, mkinds) ==
    \E symbol \in syms, months \in reqlists :
      \E kinds \in MonthlyChoices(<<symbol>>, months, mkinds) :
        \E r \in {get_benchmark_series(exists, file, symbol, months, kinds, today)} :
            /\ call' = Call("get_benchmark_series", <<symbol>>, months, NoDate, NoDate)
            /\ exists' = (exists \/ r.saved)
            /\ file' = IF r.saved THEN r.cache ELSE file
            /\ fetches' = r.fetches
            /\ saves' = IF r.saved THEN 1 ELSE 0
            /\ steps' = <<>>
            /\ result' = r.series
            /\ UNCHANGED today

\* a call of ensure_aligned_partials(symbols, inception_date, current_end)
EnsureAlignedPartialsOn(symlists, dkinds) ==
    \E symbols \in symlists, inception_date \in InceptionDates, current_end \in CurrentEnds(today) :
      \E kinds_inc \in IncChoices(symbols, inception_date, dkinds),
         kinds_cur \in CurChoices(symbols, current_end, dkinds) :
        \E r \in {ensure_aligned_partials(exists, file, symbols, inception_date, current_end,
                                         kinds_inc, kinds_cur, today)} :
            /\ call' = Call("ensure_aligned_partials", symbols, <<>>, inception_date, current_end)
            /\ exists' = TRUE
            /\ file' = r.cache
            /\ fetches' = r.fetches
            /\ saves' = 1
            /\ steps' = r.steps
            /\ result' = r.cache
            /\ UNCHANGED today

\* a call of get_aligned_benchmark_series(symbol, months, inception_date, current_end)
GetAlignedBenchmarkSeriesOn(syms, reqlists, mkinds, dkinds) ==
    \E symbol \in syms, months \in reqlists,
       inception_date \in InceptionDates, current_end \in CurrentEnds(today) :
      \E kinds \in MonthlyChoices(<<symbol>>, months, mkinds),
         kinds_inc \in IncChoices(<<symbol>>, inception_date, dkinds),
         kinds_cur \in CurChoices(<<symbol>>, current_end, dkinds) :
        \E r \in {get_aligned_benchmark_series(exists, file, symbol, months, inception_date,
                                              current_end, kinds[1], kinds_inc[1], kinds_cur[1], today)} :
            /\ call' = Call("get_aligned_benchmark_series", <<symbol>>, months,
                            inception_date, current_end)
            /\ exists' = TRUE
            /\ file' = r.cache
            /\ fetches' = r.fetches
            /\ saves' = r.saves
            /\ steps' = r.steps
            /\ result' = r.series
            /\ UNCHANGED today

----------------------------------------------------------------------------
(* Spec: every operation on one benchmark, a provider that answers or fails *)

CallLists == {<<>>, AllMonths, <<Period0 + 1, Period0 + 1>>}

EnsureBenchmarkCache == EnsureBenchmarkCacheOn({<<>>, <<"SPY">>}, CallLists, {"raise", "more"})
GetBenchmarkSeries == GetBenchmarkSeriesOn({"SPY"}, CallLists, {"raise", "more"})
EnsureAlignedPartials == EnsureAlignedPartialsOn({<<>>, <<"SPY">>}, {"raise", "all"})
GetAlignedBenchmarkSeries ==
    GetAlignedBenchmarkSeriesOn({"SPY"}, {AllMonths}, {"more"}, {"raise", "all"})

Next ==
    \/ Tick
    \/ EnsureBenchmarkCache
    \/ GetBenchmarkSeries
    \/ EnsureAlignedPartials
    \/ GetAlignedBenchmarkSeries

Spec == Init /\ [][Next]_vars

----------------------------------------------------------------------------
(* SpecCache: the full-month cache alone, every monthly behaviour of the provider *)

CacheEnsure == EnsureBenchmarkCacheOn(SymLists, ReqLists, MonthlyKinds)
CacheGet == GetBenchmarkSeriesOn(Symbols, ReqLists, MonthlyKinds)

NextCache ==
    \/ Tick
    \/ CacheEnsure
    \/ CacheGet

SpecCache == Init /\ [][NextCache]_vars

----------------------------------------------------------------------------
(* SpecAlign: the aligned series of one benchmark, requested in every order *)

AlignGet == GetAlignedBenchmarkSeriesOn({"SPY"}, ReqLists, {"raise", "all", "more"}, {"raise", "all"})

NextAlign ==
    \/ Tick
    \/ AlignGet

SpecAlign == Init /\ [][NextAlign]_vars

----------------------------------------------------------------------------
(* SpecPartial: the partial returns alone, every daily behaviour of the provider *)

PartialEnsure == EnsureAlignedPartialsOn({<<"SPY">>}, DailyKinds)

NextPartial ==
    \/ Tick
    \/ PartialEnsure

SpecPartial == Init /\ [][NextPartial]_vars

----------------------------------------------------------------------------
(* SpecBatch: two benchmarks refreshed in one call, the provider failing on *)
(* either; steps keeps the provider's behaviour on each symbol's fetch     *)

BatchKinds == {"raise", "empty", "all"}

BatchEnsure ==
    \E symbols \in {<<"SPY", "QQQ">>}, months \in {AllMonths} :
      \E kinds \in MonthlyChoices(symbols, months, BatchKinds) :
        \E r \in {ensure_benchmark_cache(exists, file, symbols, months, kinds, today)} :
            /\ call' = Call("ensure_benchmark_cache", symbols, months, NoDate, NoDate)
            /\ exists' = (exists \/ r.saved)
            /\ file' = IF r.saved THEN r.cache ELSE file
            /\ fetches' = r.fetches
            /\ saves' = IF r.saved THEN 1 ELSE 0
            /\ steps' = [i \in 1..Len(symbols) |-> [sym |-> symbols[i], kind |-> kinds[i]]]
            /\ result' = r.cache
            /\ UNCHANGED today

\* the provider answers, or fails, both daily fetches of a symbol alike
BatchPartials ==
    \E symbols \in {<<"SPY", "QQQ">>}, inception_date \in InceptionDates,
       current_end \in CurrentEnds(today) :
      \E kinds \in [1..Len(symbols) -> BatchKinds] :
        \E r \in {ensure_aligned_partials(exists, file, symbols, inception_date, current_end,
                                         kinds, kinds, today)} :
            /\ call' = Call("ensure_aligned_partials", symbols, <<>>, inception_date, current_end)
            /\ exists' = TRUE
            /\ file' = r.cache
            /\ fetches' = r.fetches
            /\ saves' = 1
            /\ steps' = r.steps
            /\ result' = r.cache
            /\ UNCHANGED today

NextBatch ==
    \/ Tick
    \/ BatchEnsure
    \/ BatchPartials

SpecBatch == Init /\ [][NextBatch]_vars

----------------------------------------------------------------------------
(* SpecCalendar: last_complete_month applied to every day of a span of years *)

\* number of years after the one before Epoch's that the span covers
NumYears == 2

CalendarDays ==
    {<<y, m, d>> : y \in (Epoch[1] - 1)..(Epoch[1] - 1 + NumYears), m \in 1..12, d \in 1..31}

InitCalendar ==
    /\ today \in {d \in CalendarDays : d[3] <= DaysInMonth(d[1], d[2])}
    /\ exists = FALSE
    /\ file = EmptyDict
    /\ call = [op |-> "init", symbols |-> <<>>, months |-> <<>>,
               inception_date |-> NoDate, current_end |-> NoDate, repeat |-> FALSE]
    /\ fetches = <<>>
    /\ saves = 0
    /\ steps = <<>>
    /\ result = <<>>

\* a call of last_complete_month(today)
LastCompleteMonth ==
    /\ call.op = "init"
    /\ call' = [call EXCEPT !.op = "last_complete_month"]
    /\ result' = last_complete_month(today)
    /\ UNCHANGED <<today, exists, file, fetches, saves, steps>>

NextCalendar == LastCompleteMonth

SpecCalendar == InitCalendar /\ [][NextCalendar]_vars

----------------------------------------------------------------------------
(* SpecTz: _first_trading_close and _last_trading_close applied to daily   *)
(* series with a tz-naive or a tz-aware index                              *)

\* the closes of test_benchmarks_tz.py, in 1/100
TzClose(d) == IF d[3] = 1 THEN 10000 ELSE IF d[3] = 2 THEN 10200 ELSE 10100
TzDays == {<<Epoch[1], Epoch[2], d>> : d \in {1, 2, 5}}
TzBounds == {<<Epoch[1], Epoch[2], d>> : d \in 1..6}
TzZones == {None, Some("America/New_York"), Some("Asia/Tokyo")}

\* the series of a set of days, ascending by date
RECURSIVE TzBars(_)
TzBars(days) ==
    IF days = {} THEN <<>>
    ELSE <<[ts |-> Earliest(days), close |-> TzClose(Earliest(days))]>>
            \o TzBars(days \ {Earliest(days)})

InitTz ==
    /\ today = <<Epoch[1], Epoch[2], 12>>
    /\ exists = FALSE
    /\ file = EmptyDict
    /\ \E days \in SUBSET TzDays, tz \in TzZones, start \in TzBounds, end \in TzBounds :
          call = [op |-> "init", series |-> [tz |-> tz, bars |-> TzBars(days)],
                  start |-> start, end |-> end]
    /\ fetches = <<>>
    /\ saves = 0
    /\ steps = <<>>
    /\ result = <<>>

\* a call of _first_trading_close(series, start)
FirstTradingClose ==
    /\ call.op = "init"
    /\ call' = [call EXCEPT !.op = "_first_trading_close"]
    /\ result' = first_trading_close(call.series, call.start)
    /\ UNCHANGED <<today, exists, file, fetches, saves, steps>>

\* a call of _last_trading_close(series, end)
LastTradingClose ==
    /\ call.op = "init"
    /\ call' = [call EXCEPT !.op = "_last_trading_close"]
    /\ result' = last_trading_close(call.series, call.end)
    /\ UNCHANGED <<today, exists, file, fetches, saves, steps>>

NextTz ==
    \/ FirstTradingClose
    \/ LastTradingClose

SpecTz == InitTz /\ [][NextTz]_vars

----------------------------------------------------------------------------
(* SpecReport: the two benchmarks of the report, aligned one after the     *)
(* other, over a cache file that a hand edit can leave with a malformed    *)
(* "_aligned" entry                                                        *)

\* the values a hand edit leaves in place of an entry: a JSON array, and the
\* entry without its "return"
JsonArray == <<>>
LacksReturn(entry) == [start |-> entry.start, end |-> entry.end, as_of |-> entry.as_of]

\* existing.get("end") raises AttributeError on a value that is not a dict; of
\* the values above only the array has no key
IsDict(v) == DOMAIN v # {}

\* aligned[key]["return"] raises TypeError on the array and KeyError on a dict
\* without "return"
RaisesOnReturn(v) == ~IsDict(v) \/ "return" \notin DOMAIN v

\* line 189 raises for sym: the entry of the current month is not a dict
RaisesAtCurrent(cache, sym, current_end) ==
    /\ PeriodStr(PeriodOf(current_end)) \in DOMAIN Get(Get(cache, "_aligned", EmptyDict), sym, EmptyDict)
    /\ ~IsDict(Get(Get(cache, "_aligned", EmptyDict), sym, EmptyDict)[PeriodStr(PeriodOf(current_end))])

\* line 231 raises: a requested month has an "_aligned" entry without a
\* readable "return"
RaisesInResolve(aligned, months) ==
    \E i \in 1..Len(months) :
        /\ PeriodStr(months[i]) \in DOMAIN aligned
        /\ RaisesOnReturn(aligned[PeriodStr(months[i])])

\* get_aligned_benchmark_series from the return of ensure_aligned_partials on
AlignedResolved(e, a, symbol, months) ==
    IF RaisesInResolve(Get(Get(a.cache, "_aligned", EmptyDict), symbol, EmptyDict), months)
    THEN [status |-> "raised", series |-> <<>>, exists |-> TRUE, cache |-> a.cache,
          fetches |-> e.fetches \o a.fetches, saves |-> (IF e.saved THEN 1 ELSE 0) + 1]
    ELSE [status |-> "ok", series |-> Merged(e, a, symbol, months).series, exists |-> TRUE,
          cache |-> a.cache, fetches |-> e.fetches \o a.fetches,
          saves |-> (IF e.saved THEN 1 ELSE 0) + 1]

\* get_aligned_benchmark_series from the return of ensure_benchmark_cache on,
\* ex1 and doc1 the file it left; an exception in ensure_aligned_partials comes
\* after the inception fetch and before the save
AlignedAfterEnsure(ex1, doc1, e, symbol, months, inception_date, current_end, kind_d, t) ==
    IF RaisesAtCurrent(LoadCache(ex1, doc1), symbol, current_end)
    THEN [status |-> "raised", series |-> <<>>, exists |-> ex1, cache |-> doc1,
          fetches |-> e.fetches \o
              InceptionPartial(Get(Get(LoadCache(ex1, doc1), "_aligned", EmptyDict), symbol, EmptyDict),
                               symbol, inception_date, kind_d).fetches,
          saves |-> IF e.saved THEN 1 ELSE 0]
    ELSE AlignedResolved(e,
             ensure_aligned_partials(ex1, doc1, <<symbol>>, inception_date, current_end,
                                     <<kind_d>>, <<kind_d>>, t),
             symbol, months)

AlignedEnsured(ex, doc, e, symbol, months, inception_date, current_end, kind_d, t) ==
    AlignedAfterEnsure(ex \/ e.saved, IF e.saved THEN e.cache ELSE doc, e, symbol, months,
                       inception_date, current_end, kind_d, t)

\* get_aligned_benchmark_series with the exceptions of its lines 189 and 231:
\* status "raised" when the call does not return
AlignedSeries(ex, doc, symbol, months, inception_date, current_end, kind_m, kind_d, t) ==
    AlignedEnsured(ex, doc, ensure_benchmark_cache(ex, doc, <<symbol>>, months, <<kind_m>>, t),
                   symbol, months, inception_date, current_end, kind_d, t)

NotRun(r1) ==
    [status |-> "not_run", series |-> <<>>, exists |-> r1.exists, cache |-> r1.cache,
     fetches |-> <<>>, saves |-> 0]

ReportSymbols == <<"SPY", "QQQ">>
ReportKinds == {"raise", "all"}

\* main of build_report: the series of SPY, then the series of QQQ; an
\* exception in the first call ends main
ReportBenchmarks ==
    \E inception_date \in InceptionDates, current_end \in CurrentEnds(today) :
      \E kinds \in [1..2 -> ReportKinds] :
        \E r1 \in {AlignedSeries(exists, file, ReportSymbols[1], AllMonths, inception_date,
                                  current_end, "all", kinds[1], today)} :
          \E r2 \in {IF r1.status = "raised" THEN NotRun(r1)
                      ELSE AlignedSeries(r1.exists, r1.cache, ReportSymbols[2], AllMonths,
                                         inception_date, current_end, "all", kinds[2], today)} :
            /\ call' = Call("main", ReportSymbols, AllMonths, inception_date, current_end)
            /\ exists' = r2.exists
            /\ file' = r2.cache
            /\ fetches' = r1.fetches \o r2.fetches
            /\ saves' = r1.saves + r2.saves
            /\ steps' = <<>>
            /\ result' = [SPY |-> [status |-> r1.status, series |-> r1.series],
                          QQQ |-> [status |-> r2.status, series |-> r2.series]]
            /\ UNCHANGED today

\* the passes of the loop of ensure_aligned_partials before the one that raises
Raising(cache, symbols, current_end) ==
    {i \in 1..Len(symbols) : RaisesAtCurrent(cache, symbols[i], current_end)}
PassesBefore(cache, symbols, current_end) ==
    SubSeq(symbols, 1, (CHOOSE i \in Raising(cache, symbols, current_end) :
                           \A j \in Raising(cache, symbols, current_end) : i <= j) - 1)

\* ensure_aligned_partials(["SPY", "QQQ"], ...): the exception of line 189 ends
\* the loop after the inception fetch of that pass, the passes made are lost
\* with the document in memory
ReportPartials ==
    \E inception_date \in InceptionDates, current_end \in CurrentEnds(today) :
      \E kinds \in [1..2 -> ReportKinds] :
        IF Raising(LoadCache(exists, file), ReportSymbols, current_end) = {}
        THEN \E r \in {ensure_aligned_partials(exists, file, ReportSymbols, inception_date,
                                                current_end, kinds, kinds, today)} :
                /\ call' = Call("ensure_aligned_partials", ReportSymbols, <<>>,
                                inception_date, current_end)
                /\ exists' = TRUE
                /\ file' = r.cache
                /\ fetches' = r.fetches
                /\ saves' = 1
                /\ steps' = r.steps
                /\ result' = [status |-> "ok", cache |-> r.cache]
                /\ UNCHANGED today
        ELSE \E r \in {AlignLoop(Get(LoadCache(exists, file), "_aligned", EmptyDict), <<>>, <<>>,
                                  PassesBefore(LoadCache(exists, file), ReportSymbols, current_end),
                                  1, inception_date, current_end, kinds, kinds)} :
                /\ call' = Call("ensure_aligned_partials", ReportSymbols, <<>>,
                                inception_date, current_end)
                /\ fetches' = r.fetches \o
                      InceptionPartial(Get(r.aligned, ReportSymbols[Len(r.steps) + 1], EmptyDict),
                                       ReportSymbols[Len(r.steps) + 1], inception_date,
                                       kinds[Len(r.steps) + 1]).fetches
                /\ saves' = 0
                /\ steps' = r.steps
                /\ result' = [status |-> "raised", cache |-> file]
                /\ UNCHANGED <<today, exists, file>>

\* the "_aligned" entries of the file that are malformed
MalformedEntries(doc) ==
    {sk \in {<<sym, k>> : sym \in {"SPY", "QQQ"}, k \in {PeriodStr(p) : p \in Months}} :
        /\ sk[2] \in DOMAIN Get(Get(doc, "_aligned", EmptyDict), sk[1], EmptyDict)
        /\ RaisesOnReturn(Get(Get(doc, "_aligned", EmptyDict), sk[1], EmptyDict)[sk[2]])}

\* a hand edit of data/benchmarks.json: one well-formed "_aligned" entry is
\* replaced; at most one entry of the file is malformed at a time
HandEdit ==
    /\ exists
    /\ MalformedEntries(file) = {}
    /\ \E sym \in {"SPY", "QQQ"} :
        \E k \in DOMAIN Get(Get(file, "_aligned", EmptyDict), sym, EmptyDict) :
        \E v \in {JsonArray, LacksReturn(file["_aligned"][sym][k])} :
            file' = Put(file, "_aligned", Put(file["_aligned"], sym, Put(file["_aligned"][sym], k, v)))
    /\ call' = Call("hand_edit", <<>>, <<>>, NoDate, NoDate)
    /\ fetches' = <<>>
    /\ saves' = 0
    /\ steps' = <<>>
    /\ result' = <<>>
    /\ UNCHANGED <<today, exists>>

NextReport ==
    \/ Tick
    \/ HandEdit
    \/ ReportBenchmarks
    \/ ReportPartials

SpecReport == Init /\ [][NextReport]_vars

----------------------------------------------------------------------------
(* SpecMetrics: max_dd_monthly of compute_metrics (sortino.py) and of      *)
(* calculate_metrics (portfolio_cli/analysis.py) on monthly return series. *)
(* The other fields of the two results are floating-point roots and powers *)
(* and are not part of the record modelled here.                           *)

MaxSeries == 3

\* monthly returns in 1/Scale
ReturnValues == {-200, -50, 100}
\* the series 0.01, -0.02, 0.03, 0.015, -0.005, 0.02, 0.01, -0.01, 0.005, 0.02,
\* 0.015, -0.02
YearOfReturns == <<100, -200, 300, 150, -50, 200, 100, -100, 50, 200, 150, -200>>

\* a series: its values in index order and the kind of its index, "period" for
\* a PeriodIndex, "range" for the default index of pd.Series(dtype=float), the
\* empty series get_benchmark_series and calculate_monthly_returns return
SeriesOfValues(values) == [index |-> "period", values |-> values]
EmptyDefault == [index |-> "range", values |-> <<>>]
MetricSeries ==
    {SeriesOfValues(v) : v \in UNION {[1..n -> ReturnValues] : n \in 0..MaxSeries}}
        \cup {SeriesOfValues(YearOfReturns), EmptyDefault}

\* a metric: a float, np.nan or None
Float(x) == [kind |-> "float", value |-> x]
NaN == [kind |-> "nan", value |-> 0]
NoneMetric == [kind |-> "none", value |-> 0]

\* monthly_returns.min()
SeriesMin(values) ==
    CHOOSE m \in {values[i] : i \in 1..Len(values)} : \A j \in 1..Len(values) : m <= values[j]

\* compute_metrics: monthly_returns.index.year of line 105 raises
\* AttributeError on an index that has no year
compute_metrics(monthly_returns) ==
    IF monthly_returns.index # "period"
    THEN [status |-> "raised", max_dd_monthly |-> NoneMetric]
    ELSE [status |-> "ok",
          max_dd_monthly |-> IF Len(monthly_returns.values) # 0
                             THEN Float(SeriesMin(monthly_returns.values))
                             ELSE NaN]

\* calculate_metrics: every metric is None on an empty series
calculate_metrics(monthly_returns) ==
    IF Len(monthly_returns.values) = 0
    THEN [status |-> "ok", max_dd_monthly |-> NoneMetric]
    ELSE [status |-> "ok", max_dd_monthly |-> Float(SeriesMin(monthly_returns.values))]

InitMetrics ==
    /\ today = <<Epoch[1], Epoch[2], 12>>
    /\ exists = FALSE
    /\ file = EmptyDict
    /\ \E series \in MetricSeries : call = [op |-> "init", monthly_returns |-> series]
    /\ fetches = <<>>
    /\ saves = 0
    /\ steps = <<>>
    /\ result = <<>>

ComputeMetrics ==
    /\ call.op = "init"
    /\ call' = [call EXCEPT !.op = "compute_metrics"]
    /\ result' = compute_metrics(call.monthly_returns)
    /\ UNCHANGED <<today, exists, file, fetches, saves, steps>>

CalculateMetrics ==
    /\ call.op = "init"
    /\ call' = [call EXCEPT !.op = "calculate_metrics"]
    /\ result' = calculate_metrics(call.monthly_returns)
    /\ UNCHANGED <<today, exists, file, fetches, saves, steps>>

NextMetrics ==
    \/ ComputeMetrics
    \/ CalculateMetrics

SpecMetrics == InitMetrics /\ [][NextMetrics]_vars

----------------------------------------------------------------------------
(* SpecFidelity: load_fidelity_monthly_returns on the rows of a Fidelity   *)
(* export                                                                  *)

MaxRows == 3

\* a cell of the export, amounts in cents: "$110.00" and "$-4.50", the
\* accounting form "($4.50)", "-" and the empty cell
Plain(v) == [kind |-> "plain", value |-> v]
Paren(v) == [kind |-> "paren", value |-> v]
Dash == [kind |-> "dash", value |-> 0]
Blank == [kind |-> "blank", value |-> 0]

\* _to_number: "$" and "," removed, "" and "-" are 0.0, "(x)" is -x
to_number(cell) ==
    IF cell.kind \in {"blank", "dash"} THEN 0
    ELSE IF cell.kind = "paren" THEN 0 - cell.value
    ELSE cell.value

\* a row of the csv reader: kind "norow" is the empty list of a blank line,
\* "monthly" the header, "month" a row whose first cell is a month label,
\* "total" the totals row, "blank" a row whose first cell is empty, "note" a
\* row whose first cell starts with "(", "text" any other text
Row(kind, label, cells) == [kind |-> kind, label |-> label, cells |-> cells]
HeaderRow == Row("monthly", 0, <<>>)
TextRow == Row("text", 0, <<>>)

\* rows of the months of the test's export, and rows with a beginning balance
\* that is not positive
MonthRows ==
    {Row("month", Period0 + 1, <<Plain(11000), Plain(1100), Plain(0), Plain(0), Plain(0), Plain(0), Plain(0), Plain(12100)>>),
     Row("month", Period0, <<Plain(10000), Plain(500), Plain(200), Plain(0), Plain(1000), Plain(0), Plain(100), Plain(11600)>>),
     Row("month", Period0 - 1, <<Plain(9000), Paren(450), Plain(150)>>),
     Row("month", Period0, <<Dash, Plain(500), Plain(200), Plain(0), Plain(0), Plain(0), Plain(0), Plain(700)>>),
     Row("month", Period0 - 1, <<Paren(9000), Plain(450), Plain(0), Plain(0), Plain(0), Plain(0), Plain(0), Plain(0)>>)}

BodyRows ==
    MonthRows \cup {Row("total", 0, <<Blank, Blank, Plain(350)>>), Row("blank", 0, <<>>),
                    Row("norow", 0, <<>>), Row("note", 0, <<>>), TextRow}

\* the rows of an export: what precedes the header, the header or none, and
\* up to MaxRows rows after it
Exports ==
    {pre \o hdr \o body :
        pre \in {<<>>, <<TextRow>>, <<CHOOSE r \in MonthRows : r.label = Period0 + 1>>},
        hdr \in {<<>>, <<HeaderRow>>},
        body \in UNION {[1..n -> BodyRows] : n \in 0..MaxRows}}

\* a mutation of DataRows: the totals row does not end the reading
RECURSIVE DataRows_all(_, _, _, _)
DataRows_all(rows, i, headers, data_rows) ==
    IF i > Len(rows) THEN [headers |-> headers, data_rows |-> data_rows]
    ELSE IF rows[i].kind = "norow" THEN DataRows_all(rows, i + 1, headers, data_rows)
    ELSE IF ~headers THEN DataRows_all(rows, i + 1, rows[i].kind = "monthly", data_rows)
    ELSE IF rows[i].kind \in {"total", "blank"}
         THEN DataRows_all(rows, i + 1, headers, data_rows)
    ELSE DataRows_all(rows, i + 1, headers, Append(data_rows, rows[i]))

\* for row in reader: empty rows skipped, the header looked for, then the rows
\* up to the first whose first cell starts with "Total" or is empty
RECURSIVE DataRows(_, _, _, _)
DataRows(rows, i, headers, data_rows) ==
    IF i > Len(rows) THEN [headers |-> headers, data_rows |-> data_rows]
    ELSE IF rows[i].kind = "norow" THEN DataRows(rows, i + 1, headers, data_rows)
    ELSE IF ~headers THEN DataRows(rows, i + 1, rows[i].kind = "monthly", data_rows)
    ELSE IF rows[i].kind \in {"total", "blank"}
         THEN [headers |-> headers, data_rows |-> data_rows]
    ELSE DataRows(rows, i + 1, headers, Append(data_rows, rows[i]))

\* cells = (row + [""] * 9)[:9]; k counts from the cell after the label
CellOf(row, k) == IF k <= Len(row.cells) THEN row.cells[k] ELSE Blank

\* market_change + dividends + interest - net_fees
Performance(row) ==
    to_number(CellOf(row, 2)) + to_number(CellOf(row, 3)) + to_number(CellOf(row, 4))
        - to_number(CellOf(row, 7))

\* the value of a row: NaN when beginning <= 0, else performance / beginning
MonthlyReturn(row) ==
    IF to_number(CellOf(row, 1)) <= 0 THEN None
    ELSE Some((Performance(row) * Scale) \div to_number(CellOf(row, 1)))

\* the loop over data_rows: a row without a label is skipped, a label that is
\* not a month raises ValueError
Unparsable(data_rows) == \E i \in 1..Len(data_rows) : data_rows[i].kind \in {"text", "monthly"}
RECURSIVE Parsed(_, _)
Parsed(data_rows, i) ==
    IF i > Len(data_rows) THEN <<>>
    ELSE (IF data_rows[i].kind = "note" THEN <<>>
          ELSE <<[period |-> data_rows[i].label, value |-> MonthlyReturn(data_rows[i])]>>)
             \o Parsed(data_rows, i + 1)

\* series.dropna(), the values unwrapped
DropNa(series) ==
    [i \in 1..Len(SelectSeq(series, LAMBDA e : e.value # None)) |->
        [period |-> SelectSeq(series, LAMBDA e : e.value # None)[i].period,
         value |-> The(SelectSeq(series, LAMBDA e : e.value # None)[i].value)]]

FidelitySeries(read) ==
    IF ~read.headers \/ Unparsable(read.data_rows)
    THEN [status |-> "ValueError", series |-> <<>>]
    ELSE [status |-> "ok", series |-> DropNa(sort_index(Parsed(read.data_rows, 1)))]

load_fidelity_monthly_returns(rows) == FidelitySeries(DataRows(rows, 1, FALSE, <<>>))

InitFidelity ==
    /\ today = <<Epoch[1], Epoch[2], 12>>
    /\ exists = FALSE
    /\ file = EmptyDict
    /\ \E rows \in Exports : call = [op |-> "init", rows |-> rows]
    /\ fetches = <<>>
    /\ saves = 0
    /\ steps = <<>>
    /\ result = <<>>

LoadFidelityMonthlyReturns ==
    /\ call.op = "init"
    /\ call' = [call EXCEPT !.op = "load_fidelity_monthly_returns"]
    /\ result' = load_fidelity_monthly_returns(call.rows)
    /\ UNCHANGED <<today, exists, file, fetches, saves, steps>>

NextFidelity == LoadFidelityMonthlyReturns

SpecFidelity == InitFidelity /\ [][NextFidelity]_vars

----------------------------------------------------------------------------
(* SpecCollect: collect_performance_data over the two portfolio sources    *)
(* and the configured benchmarks                                           *)

\* configured_benchmarks(): the benchmarks of the reports
ConfiguredBenchmarks == <<"SPY", "QQQ">>

SourceKinds == {"savvytrader", "fidelity"}
SourceLabel(src) == IF src = "savvytrader" THEN "SavvyTrader" ELSE "Fidelity"

\* what a source's file holds: "ok" months of data, "missing" no file,
\* "unparsable" text that json.load or the csv loader rejects, "mistyped"
\* valuations whose dailyTotalValueChange are strings, "empty" no month of
\* data (valuations all zero, an export without month rows)
FileStates(src) ==
    IF src = "savvytrader" THEN {"ok", "missing", "unparsable", "mistyped", "empty"}
    ELSE {"ok", "missing", "unparsable", "empty"}

\* run_portfolio_analysis: the exception raised or the monthly returns; the
\* empty series of calculate_monthly_returns has the default index, that of
\* load_fidelity_monthly_returns a PeriodIndex
run_portfolio_analysis(src, state) ==
    IF state = "missing" THEN [raises |-> "FileNotFoundError", index |-> "range", values |-> <<>>]
    ELSE IF state = "unparsable" THEN [raises |-> "ValueError", index |-> "range", values |-> <<>>]
    ELSE IF state = "mistyped" THEN [raises |-> "TypeError", index |-> "range", values |-> <<>>]
    ELSE IF state = "empty"
         THEN [raises |-> "none", index |-> IF src = "savvytrader" THEN "range" ELSE "period",
               values |-> <<>>]
    ELSE IF src = "savvytrader"
         THEN [raises |-> "none", index |-> "period",
               values |-> <<[period |-> Period0, value |-> 510]>>]
    ELSE [raises |-> "none", index |-> "period",
          values |-> <<[period |-> Period0, value |-> 600],
                       [period |-> Period0 + 1, value |-> 1000]>>]

\* list(dict.fromkeys(sources or [SAVVYTRADER, FIDELITY]))
RECURSIVE FromKeys(_, _)
FromKeys(sources, acc) ==
    IF sources = <<>> THEN acc
    ELSE FromKeys(Tail(sources),
                  IF \E i \in 1..Len(acc) : acc[i] = Head(sources) THEN acc
                  ELSE Append(acc, Head(sources)))
RequestedSources(sources) ==
    IF sources = <<>> THEN <<"savvytrader", "fidelity">> ELSE FromKeys(sources, <<>>)

Note(label, why) == [label |-> label, why |-> why]

\* the loop over the requested sources: FileNotFoundError and ValueError of
\* run_portfolio_analysis are noted, any other exception leaves the function,
\* and so does the ValueError of _ensure_period_index, raised after the try
RECURSIVE SourcesLoop(_, _, _, _, _)
SourceDone(requested, i, files, monthly_map, missing, a) ==
    IF a.raises = "FileNotFoundError"
    THEN SourcesLoop(requested, i + 1, files, monthly_map,
                     Append(missing, Note(SourceLabel(requested[i]), "missing file")))
    ELSE IF a.raises = "ValueError"
    THEN SourcesLoop(requested, i + 1, files, monthly_map,
                     Append(missing, Note(SourceLabel(requested[i]), "ValueError")))
    ELSE IF a.raises # "none"
    THEN [raises |-> a.raises, monthly_map |-> monthly_map, missing |-> missing]
    ELSE IF a.index \notin {"period", "datetime"}
    THEN [raises |-> "ValueError", monthly_map |-> monthly_map, missing |-> missing]
    ELSE SourcesLoop(requested, i + 1, files,
                     Put(monthly_map, SourceLabel(requested[i]), a.values), missing)
SourcesLoop(requested, i, files, monthly_map, missing) ==
    IF i > Len(requested)
    THEN [raises |-> "none", monthly_map |-> monthly_map, missing |-> missing]
    ELSE SourceDone(requested, i, files, monthly_map, missing,
                    run_portfolio_analysis(requested[i], files[requested[i]]))

\* the index of pd.DataFrame(monthly_map), sorted
MonthsIndex(monthly_map) ==
    LET months == {p \in Months : \E l \in DOMAIN monthly_map :
                      \E i \in 1..Len(monthly_map[l]) : monthly_map[l][i].period = p}
    IN  SelectSeq(AllMonths, LAMBDA p : p \in months)

\* the loop over configured_benchmarks(): an empty series is noted, the others
\* are columns of the bundle
RECURSIVE BenchmarksLoop(_, _, _, _, _, _, _)
BenchmarkDone(acc, symbols, i, months_index, kinds, t, r) ==
    BenchmarksLoop([exists |-> acc.exists \/ r.saved,
                    cache |-> IF r.saved THEN r.cache ELSE acc.cache,
                    fetches |-> acc.fetches \o r.fetches,
                    saves |-> acc.saves + (IF r.saved THEN 1 ELSE 0),
                    columns |-> IF r.series = <<>> THEN acc.columns
                                ELSE Put(acc.columns, symbols[i], r.series),
                    missing |-> IF r.series = <<>>
                                THEN Append(acc.missing, Note(symbols[i], "no data"))
                                ELSE acc.missing],
                   symbols, i + 1, months_index, kinds, t, 0)
BenchmarksLoop(acc, symbols, i, months_index, kinds, t, unused) ==
    IF i > Len(symbols) THEN acc
    ELSE BenchmarkDone(acc, symbols, i, months_index, kinds, t,
                       get_benchmark_series(acc.exists, acc.cache, symbols[i], months_index,
                                            <<kinds[i]>>, t))

\* collect_performance_data from the end of the loop over the sources on
Collected(ex, doc, s, include_benchmarks, kinds, t) ==
    IF s.raises # "none"
    THEN [raises |-> s.raises, exists |-> ex, cache |-> doc, fetches |-> <<>>, saves |-> 0,
          columns |-> EmptyDict, missing |-> <<>>]
    ELSE IF include_benchmarks /\ MonthsIndex(s.monthly_map) # <<>>
    THEN [raises |-> "none"] @@
         BenchmarksLoop([exists |-> ex, cache |-> doc, fetches |-> <<>>, saves |-> 0,
                         columns |-> s.monthly_map, missing |-> s.missing],
                        ConfiguredBenchmarks, 1, MonthsIndex(s.monthly_map), kinds, t, 0)
    ELSE [raises |-> "none", exists |-> ex, cache |-> doc, fetches |-> <<>>, saves |-> 0,
          columns |-> s.monthly_map, missing |-> s.missing]

collect_performance_data(ex, doc, sources, files, include_benchmarks, kinds, t) ==
    Collected(ex, doc, SourcesLoop(RequestedSources(sources), 1, files, EmptyDict, <<>>),
              include_benchmarks, kinds, t)

SourceLists ==
    {<<>>, <<"savvytrader">>, <<"fidelity">>, <<"fidelity", "savvytrader">>,
     <<"savvytrader", "savvytrader">>}

\* a call of collect_performance_data
CollectPerformanceData ==
    \E sources \in SourceLists, include_benchmarks \in BOOLEAN :
      \E files \in {f \in [SourceKinds -> {"ok", "missing", "unparsable", "mistyped", "empty"}] :
                        \A src \in SourceKinds :
                            /\ f[src] \in FileStates(src)
                            /\ (\A i \in 1..Len(RequestedSources(sources)) :
                                    RequestedSources(sources)[i] # src) => f[src] = "ok"} :
        \E kinds \in [1..Len(ConfiguredBenchmarks) -> {"raise", "all"}] :
          \E r \in {collect_performance_data(exists, file, sources, files, include_benchmarks,
                                             kinds, today)} :
            /\ call' = [op |-> "collect_performance_data", sources |-> sources, files |-> files,
                        include_benchmarks |-> include_benchmarks]
            /\ exists' = r.exists
            /\ file' = r.cache
            /\ fetches' = r.fetches
            /\ saves' = r.saves
            /\ steps' = <<>>
            /\ result' = [raises |-> r.raises, columns |-> r.columns, missing |-> r.missing]
            /\ UNCHANGED today

\* days pass between two calls
CollectTick ==
    /\ \E d \in Timeline :
          /\ DateLT(today, d)
          /\ \A e \in Timeline : DateLT(today, e) => DateLE(d, e)
          /\ today' = d
    /\ call' = [op |-> "tick", sources |-> <<>>, files |-> EmptyDict, include_benchmarks |-> FALSE]
    /\ fetches' = <<>>
    /\ saves' = 0
    /\ steps' = <<>>
    /\ result' = <<>>
    /\ UNCHANGED <<exists, file>>

InitCollect ==
    /\ today = CHOOSE d \in Timeline : \A e \in Timeline : DateLE(d, e)
    /\ exists = FALSE
    /\ file = EmptyDict
    /\ call = [op |-> "init", sources |-> <<>>, files |-> EmptyDict, include_benchmarks |-> FALSE]
    /\ fetches = <<>>
    /\ saves = 0
    /\ steps = <<>>
    /\ result = <<>>

NextCollect ==
    \/ CollectTick
    \/ CollectPerformanceData

SpecCollect == InitCollect /\ [][NextCollect]_vars

----------------------------------------------------------------------------
(* SpecProc: two processes running ensure_benchmark_cache on one cache     *)
(* file, with _load_cache, the loop over the symbols and the two halves of *)
(* _save_cache (open(CACHE_PATH, "w"), then json.dump and close) as        *)
(* separate steps, and a process that can die between the two halves.      *)
(* file is the content of the cache file: a whole document, nothing, the   *)
(* beginning of a document, or the text of one document followed by the    *)
(* rest of a longer one; steps holds the two processes; result is the      *)
(* order in which they completed their writes.                             *)

Procs == {1, 2}
ProcKinds == {"raise", "all", "more"}

\* requested months: the month before the watermark, the whole range, the
\* current month
ProcLists == {<<Period0 + 1>>, AllMonths, <<Period0 + NumMonths - 1>>}

\* the length of the text json.dump writes for a document, counted in keys
Size(doc) == Cardinality(DOMAIN doc) + Cardinality(UNION {{<<s, k>> : k \in DOMAIN doc[s]} : s \in DOMAIN doc})

Whole(doc) == [state |-> "whole", doc |-> doc, size |-> Size(doc)]
Truncated == [state |-> "empty", doc |-> EmptyDict, size |-> 0]
Partial(size) == [state |-> "partial", doc |-> EmptyDict, size |-> size]
Garbled(size) == [state |-> "garbled", doc |-> EmptyDict, size |-> size]

\* json.load on the file's content raises unless it is one whole document
Unreadable(ex, content) == ex /\ content.state # "whole"

\* the content after json.dump(cache, f) and the close of a file opened with
\* "w": the text goes to the start of the file, over what another process has
\* written there since the open; what is longer than the text stays behind it
Written(content, doc) ==
    IF content.state = "empty" \/ (content.state = "whole" /\ content.doc = doc)
    THEN {Whole(doc)}
    ELSE IF content.size < Size(doc) THEN {Whole(doc)}
    ELSE IF content.size > Size(doc) THEN {Garbled(content.size)}
    ELSE {Whole(doc), Garbled(content.size)}

\* the content a process leaves when it dies after the open: what is there
\* (its own text still in the buffer), or the flushed beginning of its text
Abandoned(content, doc) ==
    {content} \cup (IF Size(doc) > 0
                    THEN {Partial(IF content.size > 1 THEN content.size ELSE 1)}
                    ELSE {})

Idle == [pc |-> "idle", sym |-> "", months |-> <<>>, loaded |-> EmptyDict, doc |-> EmptyDict, overtaken |-> FALSE, overlapped |-> FALSE]

InitProc ==
    /\ today = CHOOSE d \in Timeline : \A e \in Timeline : DateLE(e, d)
    /\ exists = FALSE
    /\ file = Whole(EmptyDict)
    /\ call = [op |-> "init", proc |-> 0]
    /\ fetches = <<>>
    /\ saves = 0
    /\ steps = [i \in Procs |-> Idle]
    /\ result = <<>>

\* cache = _load_cache(), first statement of ensure_benchmark_cache([sym], months)
ProcLoad(i) ==
    /\ steps[i].pc = "idle"
    /\ \E sym \in Symbols, months \in ProcLists :
          steps' = [steps EXCEPT ![i] =
                      IF Unreadable(exists, file)
                      THEN [Idle EXCEPT !.pc = "raised", !.sym = sym, !.months = months]
                      ELSE [Idle EXCEPT !.pc = "loaded", !.sym = sym, !.months = months,
                                        !.loaded = LoadCache(exists, file.doc),
                                        !.doc = LoadCache(exists, file.doc)]]
    /\ call' = [op |-> "_load_cache", proc |-> i]
    /\ fetches' = <<>>
    /\ UNCHANGED <<today, exists, file, saves, result>>

\* the filter of the needed months and the loop over the symbols, in memory;
\* the process is done when it returns before the save
ProcMutate(i) ==
    /\ steps[i].pc = "loaded"
    /\ \E kind \in ProcKinds :
        \E r \in {EnsureWithLcm(steps[i].loaded, <<steps[i].sym>>, steps[i].months,
                                last_complete_month(today), <<kind>>, today)} :
            /\ steps' = [steps EXCEPT ![i].pc = IF r.saved THEN "mutated" ELSE "done",
                                      ![i].doc = r.cache]
            /\ fetches' = r.fetches
    /\ call' = [op |-> "ensure_benchmark_cache", proc |-> i]
    /\ UNCHANGED <<today, exists, file, saves, result>>

\* _save_cache, first half: mkdir and open(CACHE_PATH, "w"), which creates the
\* file or cuts it to nothing
ProcOpen(i) ==
    /\ steps[i].pc = "mutated"
    /\ steps' = [steps EXCEPT ![i].pc = "opened"]
    /\ exists' = TRUE
    /\ file' = Truncated
    /\ call' = [op |-> "open", proc |-> i]
    /\ fetches' = <<>>
    /\ UNCHANGED <<today, saves, result>>

\* _save_cache, second half: json.dump and the close at the end of the with
\* block; a process that loaded before this write and has not yet written is
\* overtaken, and one that has the file open is overlapped
ProcDump(i) ==
    /\ steps[i].pc = "opened"
    /\ \E content \in Written(file, steps[i].doc) : file' = content
    /\ steps' = [j \in Procs |->
                    IF j = i THEN [steps[j] EXCEPT !.pc = "done"]
                    ELSE IF steps[j].pc \in {"loaded", "mutated", "opened"}
                    THEN [steps[j] EXCEPT !.overtaken = TRUE,
                                          !.overlapped = @ \/ steps[j].pc = "opened"]
                    ELSE steps[j]]
    /\ result' = Append(result, i)
    /\ saves' = saves + 1
    /\ call' = [op |-> "json.dump", proc |-> i]
    /\ fetches' = <<>>
    /\ UNCHANGED <<today, exists>>

\* the process dies between the open and the close
ProcCrash(i) ==
    /\ steps[i].pc = "opened"
    /\ \E content \in Abandoned(file, steps[i].doc) : file' = content
    /\ steps' = [steps EXCEPT ![i].pc = "crashed"]
    /\ call' = [op |-> "crash", proc |-> i]
    /\ fetches' = <<>>
    /\ UNCHANGED <<today, exists, saves, result>>

\* both processes have ended; two new ones are started on the file as it is
ProcRestart ==
    /\ \A i \in Procs : steps[i].pc \in {"done", "raised", "crashed"}
    /\ steps' = [i \in Procs |-> Idle]
    /\ call' = [op |-> "restart", proc |-> 0]
    /\ fetches' = <<>>
    /\ saves' = 0
    /\ result' = <<>>
    /\ UNCHANGED <<today, exists, file>>

NextProc ==
    \/ \E i \in Procs : ProcLoad(i)
    \/ \E i \in Procs : ProcMutate(i)
    \/ \E i \in Procs : ProcOpen(i)
    \/ \E i \in Procs : ProcDump(i)
    \/ \E i \in Procs : ProcCrash(i)
    \/ ProcRestart

SpecProc == InitProc /\ [][NextProc]_vars

----------------------------------------------------------------------------
(* SpecGrow: the four cache operations on one benchmark, every monthly and *)
(* behaviour of the provider, the daily fetches failing or answered        *)

GrowLists == {AllMonths, <<Period0 + 1>>}
GrowEnsure == EnsureBenchmarkCacheOn({<<"SPY">>}, GrowLists, MonthlyKinds)
GrowGet == GetBenchmarkSeriesOn({"SPY"}, GrowLists, MonthlyKinds)
GrowPartials == EnsureAlignedPartialsOn({<<"SPY">>}, {"raise", "empty", "all"})
GrowAlign == GetAlignedBenchmarkSeriesOn({"SPY"}, GrowLists, MonthlyKinds, {"raise", "all"})

NextGrow ==
    \/ Tick
    \/ GrowEnsure
    \/ GrowGet
    \/ GrowPartials
    \/ GrowAlign

SpecGrow == Init /\ [][NextGrow]_vars

----------------------------------------------------------------------------
(* SpecFrame: the two batch operations on one or two benchmarks and the    *)
(* aligned series of one, over a document that holds both sections         *)

FrameSymLists == {<<"SPY">>, <<"SPY", "QQQ">>}
FrameKinds == {"raise", "all"}
FrameEnsure == EnsureBenchmarkCacheOn(FrameSymLists, {AllMonths}, FrameKinds)
FramePartials == EnsureAlignedPartialsOn(FrameSymLists, {"all"})
FrameAlign == GetAlignedBenchmarkSeriesOn({"SPY"}, {AllMonths}, {"all"}, FrameKinds)

NextFrame ==
    \/ Tick
    \/ FrameEnsure
    \/ FramePartials
    \/ FrameAlign

SpecFrame == Init /\ [][NextFrame]_vars

----------------------------------------------------------------------------
(* Properties *)

\* the vocabulary of the properties, written from the cache document alone
MonthOf(d) == d[1] * 12 + (d[2] - 1)
Key(p) == <<p \div 12, (p % 12) + 1>>
Watermark(t) == MonthOf(t) - 1
FullMonths(doc, sym) == IF sym \in DOMAIN doc THEN doc[sym] ELSE EmptyDict
AlignedOf(doc, sym) ==
    IF "_aligned" \in DOMAIN doc /\ sym \in DOMAIN doc["_aligned"]
    THEN doc["_aligned"][sym]
    ELSE EmptyDict
Occurrences(s, p) == Cardinality({i \in 1..Len(s) : s[i] = p})
Periods(series) == [i \in 1..Len(series) |-> series[i].period]

\* C1: at every moment, every month stored in a symbol's full-month cache is
\* at or before the month preceding today's month, whatever was requested and
\* whatever the provider answered.
C1_Watermark ==
    \A sym \in Symbols :
        \A k \in DOMAIN FullMonths(file, sym) : k[1] * 12 + (k[2] - 1) <= Watermark(today)

\* a call asked for a month after the watermark, fetched, and the watermark
\* month itself was stored
C1_Reached ==
    /\ call.op \in {"ensure_benchmark_cache", "get_aligned_benchmark_series"}
    /\ \E i \in 1..Len(call.months) : call.months[i] > Watermark(today)
    /\ fetches # <<>>
    /\ Key(Watermark(today)) \in DOMAIN FullMonths(file, "SPY")

\* every requested month at or before the watermark is in the symbol's cache
Cached(doc, sym, months, t) ==
    \A i \in 1..Len(months) :
        months[i] <= Watermark(t) => Key(months[i]) \in DOMAIN FullMonths(doc, sym)

\* C2, as stated: a call of ensure_benchmark_cache that repeats the call
\* before it, same symbols and months and same day, makes no provider fetch.
C2_Original ==
    (call.op = "ensure_benchmark_cache" /\ call.repeat) => fetches = <<>>

\* C2, amended: the repeated call fetches for exactly the symbols to which the
\* first call left a requested month at or before the watermark uncached; it
\* makes no fetch at all when the first call cached them all.
C2_Idempotent ==
    [][(call'.op = "ensure_benchmark_cache" /\ call'.repeat) =>
          \A i \in 1..Len(call'.symbols) :
              Cached(file, call'.symbols[i], call'.months, today)
                  <=> (\A j \in 1..Len(fetches') : fetches'[j].symbol # call'.symbols[i])]_vars

\* a repeated call over both symbols, with months to cache, made no fetch
C2_Reached ==
    /\ call.op = "ensure_benchmark_cache"
    /\ call.repeat
    /\ call.symbols = <<"SPY", "QQQ">>
    /\ \E i \in 1..Len(call.months) : call.months[i] <= Watermark(today)
    /\ \A i \in 1..2 : Cached(file, call.symbols[i], call.months, today)
    /\ fetches = <<>>

\* C3, as stated: in the series get_aligned_benchmark_series returns, a month
\* that is neither the inception month nor the month of current_end, and that
\* has a cached full-month value, carries that full-month value.
C3_InteriorFullMonth ==
    call.op = "get_aligned_benchmark_series" =>
        \A i \in 1..Len(result) :
            (/\ result[i].period # MonthOf(call.inception_date)
             /\ result[i].period # MonthOf(call.current_end)
             /\ Key(result[i].period) \in DOMAIN FullMonths(file, call.symbols[1]))
                => result[i].value = FullMonths(file, call.symbols[1])[Key(result[i].period)]

PartialFetch(sym, start, end) ==
    [interval |-> "1d", symbol |-> sym, start |-> start, end |-> end]
FirstOfMonth(d) == <<d[1], d[2], 1>>
Requested(reqs, req) == \E j \in 1..Len(reqs) : reqs[j] = req

\* C5, as stated: when the stored current-month partial has an end other than
\* the requested current_end, the call fetches it again and the new end is
\* persisted; when the ends are equal it makes no fetch for the current partial
\* and leaves the entry as it was.
C5_Original ==
    [][call'.op = "get_aligned_benchmark_series" =>
          ((/\ Key(MonthOf(call'.current_end)) \in DOMAIN AlignedOf(file, call'.symbols[1])
            /\ MonthOf(call'.inception_date) # MonthOf(call'.current_end)) =>
              IF AlignedOf(file, call'.symbols[1])[Key(MonthOf(call'.current_end))].end
                     # call'.current_end
              THEN /\ Requested(fetches', PartialFetch(call'.symbols[1],
                                    FirstOfMonth(call'.current_end), call'.current_end))
                   /\ AlignedOf(file', call'.symbols[1])[Key(MonthOf(call'.current_end))].end
                          = call'.current_end
              ELSE /\ ~Requested(fetches', PartialFetch(call'.symbols[1],
                                    FirstOfMonth(call'.current_end), call'.current_end))
                   /\ AlignedOf(file', call'.symbols[1])[Key(MonthOf(call'.current_end))]
                          = AlignedOf(file, call'.symbols[1])[Key(MonthOf(call'.current_end))])]_vars

\* C5, amended: a stored end other than the requested current_end makes the
\* call fetch the current partial again; the new end is persisted when that
\* fetch yields a return, and the stored entry stays as it was when it yields
\* none. Equal ends: no fetch for the current partial, the entry unchanged.
C5_Staleness ==
    [][call'.op = "get_aligned_benchmark_series" =>
          (Key(MonthOf(call'.current_end)) \in DOMAIN AlignedOf(file, call'.symbols[1]) =>
              IF AlignedOf(file, call'.symbols[1])[Key(MonthOf(call'.current_end))].end
                     # call'.current_end
              THEN /\ Requested(fetches', PartialFetch(call'.symbols[1],
                                    FirstOfMonth(call'.current_end), call'.current_end))
                   /\ IF steps'[1].r_cur # None
                      THEN AlignedOf(file', call'.symbols[1])[Key(MonthOf(call'.current_end))]
                              = [start |-> FirstOfMonth(call'.current_end),
                                 end |-> call'.current_end,
                                 return |-> steps'[1].r_cur[1],
                                 as_of |-> call'.current_end]
                      ELSE AlignedOf(file', call'.symbols[1])[Key(MonthOf(call'.current_end))]
                              = AlignedOf(file, call'.symbols[1])[Key(MonthOf(call'.current_end))]
              ELSE /\ ~Requested(fetches', PartialFetch(call'.symbols[1],
                                    FirstOfMonth(call'.current_end), call'.current_end))
                   /\ AlignedOf(file', call'.symbols[1])[Key(MonthOf(call'.current_end))]
                          = AlignedOf(file, call'.symbols[1])[Key(MonthOf(call'.current_end))])]_vars

\* a stale current-month entry, left by an earlier day of the month, was
\* fetched again and replaced
C5_Reached ==
    /\ call.op = "get_aligned_benchmark_series"
    /\ steps[1].existing # None
    /\ steps[1].existing[1].start = FirstOfMonth(call.current_end)
    /\ steps[1].existing[1].end # call.current_end
    /\ steps[1].r_cur # None
    /\ AlignedOf(file, "SPY")[Key(MonthOf(call.current_end))].end = call.current_end

\* C6, as stated: the series is in ascending order of month and no month
\* appears twice, whatever the list of requested months.
C6_Original ==
    call.op = "get_aligned_benchmark_series" =>
        \A i, j \in 1..Len(result) : i < j => result[i].period < result[j].period

\* C6, amended: the series is in ascending order of month, and a month appears
\* in it at most as many times as in the requested list, so never twice when
\* the requested list names it once.
C6_Sorted ==
    call.op = "get_aligned_benchmark_series" =>
        /\ \A i, j \in 1..Len(result) : i < j => result[i].period <= result[j].period
        /\ \A p \in Months : Occurrences(Periods(result), p) <= Occurrences(call.months, p)

\* months requested in descending order came back, several of them
C6_Reached ==
    /\ call.op = "get_aligned_benchmark_series"
    /\ Len(call.months) >= 2
    /\ call.months[1] > call.months[2]
    /\ Len(result) = Len(call.months)

\* C7, as stated: the two steps of an alignment over no symbols and no months,
\* ensure_benchmark_cache([], []) and ensure_aligned_partials([], ...), make
\* no provider call and do not write the cache.
C7_EmptyAlign ==
    (/\ call.op \in {"ensure_benchmark_cache", "ensure_aligned_partials"}
     /\ call.symbols = <<>>
     /\ call.months = <<>>)
        => (fetches = <<>> /\ saves = 0)

\* C8: when no requested month is at or before the watermark (an empty list,
\* or every month after it), ensure_benchmark_cache makes no fetch, does not
\* write, and returns the document it loaded.
C8_NothingNeeded ==
    [][(/\ call'.op = "ensure_benchmark_cache"
        /\ \A i \in 1..Len(call'.months) : call'.months[i] > Watermark(today))
          => /\ fetches' = <<>>
             /\ saves' = 0
             /\ exists' = exists
             /\ file' = file
             /\ result' = IF exists THEN file ELSE EmptyDict]_vars

\* a call over a symbol whose requested months are all after the watermark
\* returned a cache that holds data
C8_Reached ==
    /\ call.op = "ensure_benchmark_cache"
    /\ call.symbols # <<>>
    /\ call.months # <<>>
    /\ \A i \in 1..Len(call.months) : call.months[i] > Watermark(today)
    /\ fetches = <<>>
    /\ saves = 0
    /\ DOMAIN FullMonths(result, "SPY") # {}

\* what the provider served to a daily fetch, and the return over its window
ServedBars(kind, sym, start, end) ==
    IF kind \in {"raise", "unused"} THEN <<>> ELSE DailyHistory(kind, sym, start, end).bars
OnOrAfter(bars, start) == {i \in 1..Len(bars) : DateLE(start, bars[i].ts)}
OnOrBefore(bars, end) == {i \in 1..Len(bars) : DateLE(bars[i].ts, end)}
Least(S) == CHOOSE x \in S : \A y \in S : x <= y
Greatest(S) == CHOOSE x \in S : \A y \in S : x >= y
Usable(bars, start, end) ==
    /\ OnOrAfter(bars, start) # {}
    /\ OnOrBefore(bars, end) # {}
    /\ bars[Least(OnOrAfter(bars, start))].close # 0
WindowReturn(bars, start, end) ==
    (bars[Greatest(OnOrBefore(bars, end))].close * Scale)
        \div bars[Least(OnOrAfter(bars, start))].close - Scale
LastOfMonth(d) == <<d[1], d[2], DaysInMonth(d[1], d[2])>>

\* the entry stored under key k is the partial return of the bars a fetch of
\* the given kind served for [start, end]
StoredFrom(entry, k, kind, sym, start, end) ==
    /\ k = Key(MonthOf(start))
    /\ Usable(ServedBars(kind, sym, start, end), start, end)
    /\ entry = [start |-> start, end |-> end,
                return |-> WindowReturn(ServedBars(kind, sym, start, end), start, end),
                as_of |-> end]

\* C9: ensure_aligned_partials writes or replaces a partial entry only from a
\* fetch whose answer holds a trading day at or after the start, one at or
\* before the end, and a non-zero first close, and then stores the return
\* between those two closes; a fetch that raises, comes back empty, misses the
\* window or starts at a zero close writes nothing, and no entry is removed.
C9_PartialWritten ==
    [][call'.op = "ensure_aligned_partials" =>
          \A n \in 1..Len(steps') :
              /\ DOMAIN AlignedOf(file, steps'[n].sym) \subseteq DOMAIN AlignedOf(file', steps'[n].sym)
              /\ \A k \in DOMAIN AlignedOf(file', steps'[n].sym) :
                    (k \notin DOMAIN AlignedOf(file, steps'[n].sym)
                        \/ AlignedOf(file', steps'[n].sym)[k] # AlignedOf(file, steps'[n].sym)[k])
                    => \/ StoredFrom(AlignedOf(file', steps'[n].sym)[k], k, steps'[n].cur_kind,
                                     steps'[n].sym, FirstOfMonth(call'.current_end),
                                     call'.current_end)
                       \/ StoredFrom(AlignedOf(file', steps'[n].sym)[k], k, steps'[n].inc_kind,
                                     steps'[n].sym, call'.inception_date,
                                     LastOfMonth(call'.inception_date))]_vars

\* the inception partial was written from a full answer while the current
\* partial, fetched from an answer that starts at a zero close, was not
C9_Reached ==
    /\ call.op = "ensure_aligned_partials"
    /\ steps[1].inc_kind = "all"
    /\ Key(MonthOf(call.inception_date)) \in DOMAIN AlignedOf(file, "SPY")
    /\ steps[1].cur_kind = "zero"
    /\ Key(MonthOf(call.current_end)) \notin DOMAIN AlignedOf(file, "SPY")

\* the month p is in the series with its cached full-month value, or absent
FallsBack(p) ==
    \A i \in 1..Len(result) :
        result[i].period = p =>
            /\ Key(p) \in DOMAIN FullMonths(file, call.symbols[1])
            /\ result[i].value = FullMonths(file, call.symbols[1])[Key(p)]

\* C10, as stated: when the daily fetch a partial needs yields no return, the
\* month has its cached full-month value in the series, or is absent from it.
C10_FailureFallback ==
    call.op = "get_aligned_benchmark_series" =>
        /\ (/\ steps[1].cur_fetch
            /\ steps[1].r_cur = None
            /\ MonthOf(call.inception_date) # MonthOf(call.current_end))
              => FallsBack(MonthOf(call.current_end))
        /\ (/\ steps[1].inc_fetch
            /\ steps[1].r_inc = None
            /\ ~(MonthOf(call.inception_date) = MonthOf(call.current_end)
                    /\ steps[1].r_cur # None))
              => FallsBack(MonthOf(call.inception_date))

\* the provider's full-month return of month p, and a symbol's full-month map
\* after a fetch answered with the bars from its first uncached requested
\* month on: the first bar has no return, the months after it up to the last
\* uncached one have
MonthEndClose(sym, p) == Close(sym, LastOfMonth(<<Key(p)[1], Key(p)[2], 1>>))
MonthReturn(sym, p) == (MonthEndClose(sym, p) * Scale) \div MonthEndClose(sym, p - 1) - Scale
Uncached(doc, sym, months, t) ==
    {p \in {months[i] : i \in 1..Len(months)} :
        p <= Watermark(t) /\ Key(p) \notin DOMAIN FullMonths(doc, sym)}
Refreshed(doc, sym, U) ==
    [k \in DOMAIN FullMonths(doc, sym) \cup {Key(p) : p \in (Least(U) + 1)..Greatest(U)} |->
        IF k[1] * 12 + (k[2] - 1) \in (Least(U) + 1)..Greatest(U)
        THEN MonthReturn(sym, k[1] * 12 + (k[2] - 1))
        ELSE FullMonths(doc, sym)[k]]
FetchedFor(reqs, sym) == \E j \in 1..Len(reqs) : reqs[j].symbol = sym
Failing(kind) == kind \in {"raise", "empty"}

\* C11: in a call of ensure_benchmark_cache or ensure_aligned_partials over
\* two symbols, a symbol whose fetch raises or comes back empty keeps its
\* cached entries as they were, and every symbol is fetched for, and ends with
\* the entries, that its own cache and its own answer determine, whatever
\* happened to the other symbol; the call runs to its save.
C11_Independent ==
    [][/\ (call'.op = "ensure_benchmark_cache" /\ Len(steps') = Len(call'.symbols)) =>
            \A n \in 1..Len(steps') :
                /\ FetchedFor(fetches', steps'[n].sym)
                      <=> Uncached(file, steps'[n].sym, call'.months, today) # {}
                /\ (steps'[n].kind = "unused")
                      <=> Uncached(file, steps'[n].sym, call'.months, today) = {}
                /\ FullMonths(file', steps'[n].sym) =
                      IF steps'[n].kind = "all"
                      THEN Refreshed(file, steps'[n].sym,
                                     Uncached(file, steps'[n].sym, call'.months, today))
                      ELSE FullMonths(file, steps'[n].sym)
                /\ saves' = IF \E i \in 1..Len(call'.months) : call'.months[i] <= Watermark(today)
                            THEN 1 ELSE 0
       /\ (call'.op = "ensure_aligned_partials") =>
            /\ saves' = 1
            /\ Len(steps') = Len(call'.symbols)
            /\ \A n \in 1..Len(steps') :
                  /\ steps'[n].sym = call'.symbols[n]
                  /\ \A k \in DOMAIN AlignedOf(file, steps'[n].sym) \cup DOMAIN AlignedOf(file', steps'[n].sym) :
                        IF k = Key(MonthOf(call'.current_end)) /\ steps'[n].cur_kind = "all"
                        THEN StoredFrom(AlignedOf(file', steps'[n].sym)[k], k, "all", steps'[n].sym,
                                        FirstOfMonth(call'.current_end), call'.current_end)
                        ELSE IF k = Key(MonthOf(call'.inception_date)) /\ steps'[n].inc_kind = "all"
                        THEN StoredFrom(AlignedOf(file', steps'[n].sym)[k], k, "all", steps'[n].sym,
                                        call'.inception_date, LastOfMonth(call'.inception_date))
                        ELSE /\ k \in DOMAIN AlignedOf(file, steps'[n].sym)
                             /\ k \in DOMAIN AlignedOf(file', steps'[n].sym)
                             /\ AlignedOf(file', steps'[n].sym)[k] = AlignedOf(file, steps'[n].sym)[k]]_vars

\* the fetch for the first symbol of a batch raised and stored nothing, the
\* fetch for the second stored the watermark month
C11_Reached ==
    /\ call.op = "ensure_benchmark_cache"
    /\ call.symbols = <<"SPY", "QQQ">>
    /\ Len(steps) = 2
    /\ steps[1].kind = "raise"
    /\ steps[2].kind = "all"
    /\ DOMAIN FullMonths(file, "SPY") = {}
    /\ Key(Watermark(today)) \in DOMAIN FullMonths(file, "QQQ")

\* C12, as stated: once a symbol's aligned cache holds the partial of the
\* inception month (an entry starting at inception_date), a later
\* get_aligned_benchmark_series call with the same inception_date makes no
\* fetch for the inception partial and leaves the entry's start, end and
\* return unchanged, also when current_end lies in the inception month.
C12_InceptionOnce ==
    [][(/\ call'.op = "get_aligned_benchmark_series"
        /\ Key(MonthOf(call'.inception_date)) \in DOMAIN AlignedOf(file, call'.symbols[1])
        /\ AlignedOf(file, call'.symbols[1])[Key(MonthOf(call'.inception_date))].start
              = call'.inception_date)
          => /\ ~Requested(fetches', PartialFetch(call'.symbols[1], call'.inception_date,
                                                  LastOfMonth(call'.inception_date)))
             /\ AlignedOf(file', call'.symbols[1])[Key(MonthOf(call'.inception_date))].start
                   = AlignedOf(file, call'.symbols[1])[Key(MonthOf(call'.inception_date))].start
             /\ AlignedOf(file', call'.symbols[1])[Key(MonthOf(call'.inception_date))].end
                   = AlignedOf(file, call'.symbols[1])[Key(MonthOf(call'.inception_date))].end
             /\ AlignedOf(file', call'.symbols[1])[Key(MonthOf(call'.inception_date))].return
                   = AlignedOf(file, call'.symbols[1])[Key(MonthOf(call'.inception_date))].return]_vars

\* C13, as stated, for a call whose current_end lies after the inception
\* month: when get_aligned_benchmark_series returns, an entry the symbol's
\* aligned cache holds for the inception month starts at inception_date and
\* ends on the last day of that month.
C13_InceptionWindow ==
    (/\ call.op = "get_aligned_benchmark_series"
     /\ MonthOf(call.current_end) # MonthOf(call.inception_date)
     /\ Key(MonthOf(call.inception_date)) \in DOMAIN AlignedOf(file, call.symbols[1]))
        => /\ AlignedOf(file, call.symbols[1])[Key(MonthOf(call.inception_date))].start
                 = call.inception_date
           /\ AlignedOf(file, call.symbols[1])[Key(MonthOf(call.inception_date))].end
                 = LastOfMonth(call.inception_date)

\* C14, as stated: on a day of April 2024, with the provider answering,
\* get_aligned_benchmark_series for months [2024-02, 2024-03, 2024-04],
\* inception date 2024-02-10 and current end 2024-04-12 returns for February
\* the return from the first close on or after 2024-02-10 to the last close on
\* or before 2024-02-29, for March the cached full-month value, and for April
\* the return over 2024-04-01 .. 2024-04-12.
C14_Scenario ==
    (/\ call.op = "get_aligned_benchmark_series"
     /\ today[1] = 2024 /\ today[2] = 4
     /\ call.months = <<2024 * 12 + 1, 2024 * 12 + 2, 2024 * 12 + 3>>
     /\ call.inception_date = <<2024, 2, 10>>
     /\ call.current_end = <<2024, 4, 12>>
     /\ steps[1].inc_kind \in {"all", "unused"}
     /\ steps[1].cur_kind \in {"all", "unused"}
     /\ <<2024, 3>> \in DOMAIN FullMonths(file, call.symbols[1]))
        => result =
              <<[period |-> 2024 * 12 + 1,
                 value |-> WindowReturn(ServedBars("all", call.symbols[1], <<2024, 2, 10>>, <<2024, 2, 29>>),
                                        <<2024, 2, 10>>, <<2024, 2, 29>>)],
                [period |-> 2024 * 12 + 2,
                 value |-> FullMonths(file, call.symbols[1])[<<2024, 3>>]],
                [period |-> 2024 * 12 + 3,
                 value |-> WindowReturn(ServedBars("all", call.symbols[1], <<2024, 4, 1>>, <<2024, 4, 12>>),
                                        <<2024, 4, 1>>, <<2024, 4, 12>>)]>>

\* C15: the series get_benchmark_series returns holds the requested months
\* that have a value in the symbol's full-month cache, once per time
\* requested, each with its cached value, in ascending order of month; a
\* requested month without a cached value is left out, and the series is empty
\* when none has one.
C15_Projection ==
    call.op = "get_benchmark_series" =>
        /\ \A i \in 1..Len(result) :
              /\ Key(result[i].period) \in DOMAIN FullMonths(file, call.symbols[1])
              /\ result[i].value = FullMonths(file, call.symbols[1])[Key(result[i].period)]
        /\ \A i, j \in 1..Len(result) : i < j => result[i].period <= result[j].period
        /\ \A p \in Months :
              Occurrences(Periods(result), p) =
                  IF Key(p) \in DOMAIN FullMonths(file, call.symbols[1])
                  THEN Occurrences(call.months, p)
                  ELSE 0

\* months requested in descending order: the cached ones came back, the
\* uncached one was left out
C15_Reached ==
    /\ call.op = "get_benchmark_series"
    /\ Len(call.months) >= 2
    /\ call.months[1] > call.months[2]
    /\ Len(result) >= 2
    /\ Len(result) < Len(call.months)

C17_LastCompleteMonth ==
    call.op = "last_complete_month" =>
        /\ result \div 12 = IF today[2] = 1 THEN today[1] - 1 ELSE today[1]
        /\ (result % 12) + 1 = IF today[2] = 1 THEN 12 ELSE today[2] - 1

\* called on a 31 January: December of the year before
C17_Reached ==
    /\ call.op = "last_complete_month"
    /\ today[2] = 1
    /\ today[3] = 31
    /\ result = (today[1] - 1) * 12 + 11

\* C18: on a daily series in ascending order of date, _first_trading_close is
\* the close of the earliest day on or after the start and
\* _last_trading_close the close of the latest day on or before the end, None
\* when there is no such day; the selection is made on the wall-clock dates,
\* so a tz-aware index gives what the tz-naive index of the same dates gives.
C18_TzRoundTrip ==
    /\ call.op = "_first_trading_close" =>
          result = IF OnOrAfter(call.series.bars, call.start) = {} THEN None
                   ELSE Some(call.series.bars[Least(OnOrAfter(call.series.bars, call.start))].close)
    /\ call.op = "_last_trading_close" =>
          result = IF OnOrBefore(call.series.bars, call.end) = {} THEN None
                   ELSE Some(call.series.bars[Greatest(OnOrBefore(call.series.bars, call.end))].close)

\* the test's series under a tz-aware index, asked for the first close on or
\* after 2 February
C18_Reached ==
    /\ call.op = "_first_trading_close"
    /\ call.series.tz # None
    /\ Len(call.series.bars) = 3
    /\ call.start = <<2024, 2, 2>>
    /\ result = Some(10200)

\* C19: a malformed cached entry of one symbol or month leaves the other
\* symbols of the same operation aligned: in main every benchmark whose
\* "_aligned" entries are all well-formed gets its series, and in
\* ensure_aligned_partials every such symbol gets its pass of the loop.
C19_Isolated ==
    /\ call.op = "main" =>
          \A sym \in {"SPY", "QQQ"} :
              (\A sk \in MalformedEntries(file) : sk[1] # sym) => result[sym].status = "ok"
    /\ call.op = "ensure_aligned_partials" =>
          \A i \in 1..Len(call.symbols) :
              (\A sk \in MalformedEntries(file) : sk[1] # call.symbols[i])
                  => \E j \in 1..Len(steps) : steps[j].sym = call.symbols[i]

\* what pd.notna and "is not None" reject
IsNull(metric) == metric.kind \in {"nan", "none"}

\* the least of the months of a non-empty series
IsMinimum(values, m) ==
    /\ \E i \in 1..Len(values) : values[i] = m
    /\ \A j \in 1..Len(values) : m <= values[j]

\* C20: the max monthly drawdown the metrics engine returns is the minimum
\* single-month return of a non-empty series (-0.02 for the twelve-month
\* series) and null for an empty series.
C20_MaxDrawdown ==
    call.op \in {"compute_metrics", "calculate_metrics"} =>
        /\ result.status = "ok"
        /\ IF Len(call.monthly_returns.values) = 0
           THEN IsNull(result.max_dd_monthly)
           ELSE /\ result.max_dd_monthly.kind = "float"
                /\ IsMinimum(call.monthly_returns.values, result.max_dd_monthly.value)
        /\ call.monthly_returns.values = YearOfReturns => result.max_dd_monthly = Float(-200)

\* the part of C20 that holds: whenever a metrics call returns, its drawdown
\* is the minimum of a non-empty series and null for an empty one
MaxDrawdownWhenReturned ==
    (call.op \in {"compute_metrics", "calculate_metrics"} /\ result.status = "ok") =>
        IF Len(call.monthly_returns.values) = 0
        THEN IsNull(result.max_dd_monthly)
        ELSE IsMinimum(call.monthly_returns.values, result.max_dd_monthly.value)

\* the rows of an export after its first header and before the first totals
\* or blank-first-cell row after it
HeaderAt(rows) == {h \in 1..Len(rows) : rows[h].kind = "monthly"}
FirstHeader(rows) == CHOOSE h \in HeaderAt(rows) : \A g \in HeaderAt(rows) : h <= g
Between(rows) ==
    {i \in 1..Len(rows) :
        /\ i > FirstHeader(rows)
        /\ \A k \in (FirstHeader(rows) + 1)..i : rows[k].kind \notin {"total", "blank"}}

\* v is (market change + dividends + interest - net fees) / beginning balance
\* of a month row, to 1/Scale
IsFidelityReturn(row, v) ==
    /\ to_number(CellOf(row, 1)) > 0
    /\ v * to_number(CellOf(row, 1)) <= Performance(row) * Scale
    /\ Performance(row) * Scale < (v + 1) * to_number(CellOf(row, 1))

\* C21: load_fidelity_monthly_returns reads the rows between the header and
\* the first totals or blank-first-cell row only, gives each month with a
\* positive beginning balance its return, drops the other months, and returns
\* the months in ascending order whatever the order of the rows.
C21_FidelityReturns ==
    (/\ call.op = "load_fidelity_monthly_returns"
     /\ HeaderAt(call.rows) # {}
     /\ \A i \in Between(call.rows) : call.rows[i].kind \notin {"text", "monthly"}) =>
        /\ result.status = "ok"
        /\ \A j \in 1..(Len(result.series) - 1) :
              result.series[j].period <= result.series[j + 1].period
        /\ \A p \in {Period0 - 1, Period0, Period0 + 1} :
              Cardinality({j \in 1..Len(result.series) : result.series[j].period = p})
                = Cardinality({i \in Between(call.rows) :
                                  /\ call.rows[i].kind = "month"
                                  /\ call.rows[i].label = p
                                  /\ to_number(CellOf(call.rows[i], 1)) > 0})
        /\ \A j \in 1..Len(result.series) :
              \E i \in Between(call.rows) :
                  /\ call.rows[i].kind = "month"
                  /\ call.rows[i].label = result.series[j].period
                  /\ IsFidelityReturn(call.rows[i], result.series[j].value)

\* an export with its months in descending order, a month without a positive
\* beginning balance among them, is returned ascending without that month
C21_Reached ==
    /\ call.op = "load_fidelity_monthly_returns"
    /\ Len(call.rows) = 4
    /\ call.rows[1].kind = "monthly"
    /\ call.rows[2].label = Period0 + 1
    /\ call.rows[3].kind = "month" /\ to_number(CellOf(call.rows[3], 1)) <= 0
    /\ call.rows[4].label = Period0 - 1 /\ to_number(CellOf(call.rows[4], 1)) > 0
    /\ result.status = "ok"
    /\ Len(result.series) = 2
    /\ result.series[1] = [period |-> Period0 - 1, value |-> -334]
    /\ result.series[2] = [period |-> Period0 + 1, value |-> 1000]

\* the number of notes of a label in the 'missing' list
NotesOf(missing, label) == Cardinality({i \in 1..Len(missing) : missing[i].label = label})

\* C22: collect_performance_data returns a bundle whatever the sources hold:
\* each requested source whose file is missing or unparsable has one note in
\* 'missing' and no column, every other requested source has its column, and,
\* where benchmarks are asked for and some source gave a month, each benchmark
\* has either its column or one note.
C22_SoftFailure ==
    (/\ call.op = "collect_performance_data"
     /\ \A src \in SourceKinds : call.files[src] # "empty") =>
        /\ result.raises = "none"
        /\ \A i \in 1..Len(RequestedSources(call.sources)) :
              LET src == RequestedSources(call.sources)[i]
              IN  IF call.files[src] = "ok"
                  THEN /\ SourceLabel(src) \in DOMAIN result.columns
                       /\ NotesOf(result.missing, SourceLabel(src)) = 0
                  ELSE /\ SourceLabel(src) \notin DOMAIN result.columns
                       /\ NotesOf(result.missing, SourceLabel(src)) = 1
        /\ (call.include_benchmarks
              /\ \E i \in 1..Len(RequestedSources(call.sources)) :
                    call.files[RequestedSources(call.sources)[i]] = "ok") =>
              \A b \in 1..Len(ConfiguredBenchmarks) :
                  (ConfiguredBenchmarks[b] \in DOMAIN result.columns)
                      <=> NotesOf(result.missing, ConfiguredBenchmarks[b]) = 0

\* the part of C22 that holds: with every file in order, missing, or rejected
\* with a ValueError, the bundle is returned with one note per failed source
\* and per empty benchmark
SoftFailureOnValueError ==
    (/\ call.op = "collect_performance_data"
     /\ \A src \in SourceKinds : call.files[src] \in {"ok", "missing", "unparsable"}) =>
        /\ result.raises = "none"
        /\ \A i \in 1..Len(RequestedSources(call.sources)) :
              (call.files[RequestedSources(call.sources)[i]] = "ok")
                  <=> NotesOf(result.missing, SourceLabel(RequestedSources(call.sources)[i])) = 0
        /\ Len(result.missing) <= Len(RequestedSources(call.sources)) + Len(ConfiguredBenchmarks)

----------------------------------------------------------------------------
\* the requests of a call made for one symbol
FetchesFor(reqs, sym) == SelectSeq(reqs, LAMBDA q : q.symbol = sym)

\* C23: in one call of ensure_benchmark_cache (directly, or through
\* get_benchmark_series), for each symbol of the call that has a requested
\* month at or before the watermark without a cached value exactly one
\* provider fetch is made, a monthly one for the range from the least to the
\* greatest such month; for each symbol that has none no fetch is made, and no
\* fetch is made for any other symbol.
C23_SingleFetch ==
    [][(call'.op \in {"ensure_benchmark_cache", "get_benchmark_series"}) =>
          /\ \A j \in 1..Len(fetches') :
                \E n \in 1..Len(call'.symbols) : fetches'[j].symbol = call'.symbols[n]
          /\ \A n \in 1..Len(call'.symbols) :
                FetchesFor(fetches', call'.symbols[n]) =
                    IF Uncached(file, call'.symbols[n], call'.months, today) = {}
                    THEN <<>>
                    ELSE <<MonthlyRequest(call'.symbols[n],
                              Least(Uncached(file, call'.symbols[n], call'.months, today)),
                              Greatest(Uncached(file, call'.symbols[n], call'.months, today)))>>]_vars

\* a two-symbol call made one fetch, for SPY over a range of more than one
\* month, and none for QQQ, whose requested months were all cached
C23_Reached ==
    /\ call.op = "ensure_benchmark_cache"
    /\ call.symbols = <<"SPY", "QQQ">>
    /\ Len(fetches) = 1
    /\ fetches[1].symbol = "SPY"
    /\ fetches[1].interval = "1mo"
    /\ PeriodOf(fetches[1].start) + 1 < PeriodOf(fetches[1].end)
    /\ \E i \in 1..Len(call.months) : call.months[i] <= Watermark(today)
    /\ Cached(file, "QQQ", call.months, today)

----------------------------------------------------------------------------
\* the entries a process added to the document it loaded
AddedBy(p, sym) == DOMAIN FullMonths(p.doc, sym) \ DOMAIN FullMonths(p.loaded, sym)
BothSaved(l, o) ==
    /\ l # o
    /\ steps[l].pc = "done"
    /\ steps[o].pc = "done"
    /\ result = <<o, l>>

\* C24: when two processes have both run load, mutate and save on the cache
\* file, and the one that saved last had loaded before the other saved, the
\* file holds the document of the last saver, and an entry the other process
\* added (and the last saver did not) is absent from it.
C24_LostUpdate ==
    \A l \in Procs, o \in Procs :
        (BothSaved(l, o) /\ steps[l].overtaken) =>
            /\ file.state = "whole"
            /\ file.doc = steps[l].doc
            /\ \A sym \in Symbols : \A k \in AddedBy(steps[o], sym) :
                  k \notin DOMAIN FullMonths(steps[l].doc, sym)
                      => k \notin DOMAIN FullMonths(file.doc, sym)

\* the part of C24 that holds: the same, when the last saver opened the file
\* after the other process had finished writing it
LastSaverWinsApart ==
    \A l \in Procs, o \in Procs :
        (BothSaved(l, o) /\ steps[l].overtaken /\ ~steps[l].overlapped) =>
            /\ file.state = "whole"
            /\ file.doc = steps[l].doc
            /\ \A sym \in Symbols : \A k \in AddedBy(steps[o], sym) :
                  k \notin DOMAIN FullMonths(steps[l].doc, sym)
                      => k \notin DOMAIN FullMonths(file.doc, sym)

\* an update is lost: both saved apart, and an entry the first saver added is
\* not in the file
LostUpdateReached ==
    \E l \in Procs, o \in Procs :
        /\ BothSaved(l, o) /\ steps[l].overtaken /\ ~steps[l].overlapped
        /\ \E sym \in Symbols : \E k \in AddedBy(steps[o], sym) :
              k \notin DOMAIN FullMonths(file.doc, sym)

\* C25: at every point of a cache operation, a crash during the save
\* included, the cache file holds one complete document: the one from before
\* the operation or the new one, never nothing and never a part of one.
C25_AtomicWrite == exists => file.state = "whole"

----------------------------------------------------------------------------
\* C26: after every align call of a portfolio, as current_end moves on over
\* the months, a symbol's aligned cache holds at most two partial entries: the
\* one of the inception month and the one of the month of the latest
\* current_end.
C26_TwoPartials ==
    (call.op \in {"get_aligned_benchmark_series", "ensure_aligned_partials"}) =>
        \A sym \in Symbols :
            /\ DOMAIN AlignedOf(file, sym) \subseteq
                    {Key(MonthOf(call.inception_date)), Key(MonthOf(call.current_end))}
            /\ Cardinality(DOMAIN AlignedOf(file, sym)) <= 2

\* the part of C26 that holds: every key of a symbol's aligned cache is the
\* inception month or a month in which an align call was made, none of them
\* after the month of the latest current_end
AlignedKeysInRange ==
    (call.op \in {"get_aligned_benchmark_series", "ensure_aligned_partials"}) =>
        \A sym \in Symbols : \A k \in DOMAIN AlignedOf(file, sym) :
            /\ MonthOf(call.inception_date) <= k[1] * 12 + (k[2] - 1)
            /\ k[1] * 12 + (k[2] - 1) <= MonthOf(call.current_end)

----------------------------------------------------------------------------
\* C27: the full-month cache only grows: over every call of
\* ensure_benchmark_cache, get_benchmark_series, ensure_aligned_partials and
\* get_aligned_benchmark_series, whatever the provider answers, every month
\* key a symbol's full-month map had before the call is in it after the call.
C27_OnlyGrows ==
    [][\A sym \in Symbols :
          DOMAIN FullMonths(file, sym) \subseteq DOMAIN FullMonths(file', sym)]_vars

\* a call fetched for SPY and left a requested month uncached, and SPY's map
\* still holds a month cached before
C27_Reached ==
    /\ call.op \in {"ensure_benchmark_cache", "get_aligned_benchmark_series"}
    /\ FetchedFor(fetches, "SPY")
    /\ call.repeat
    /\ Uncached(file, "SPY", call.months, today) # {}
    /\ DOMAIN FullMonths(file, "SPY") # {}

----------------------------------------------------------------------------
\* the symbols passed to a call, and the keys of two documents
Passed(symbols) == {symbols[i] : i \in 1..Len(symbols)}
SameAt(d, e, k) == (k \in DOMAIN d /\ k \in DOMAIN e /\ d[k] = e[k]) \/ (k \notin DOMAIN d /\ k \notin DOMAIN e)

\* C28: a call of ensure_benchmark_cache(symbols, months) changes at most the
\* full-month maps of the symbols passed: the "_aligned" section, the "_meta"
\* section and the full-month map of every other symbol are in the persisted
\* document after the call exactly as before it.
C28_EnsureFrame ==
    [][(call'.op = "ensure_benchmark_cache") =>
          \A k \in (DOMAIN file \cup DOMAIN file') \ Passed(call'.symbols) :
              SameAt(file, file', k)]_vars

\* a call for SPY alone fetched and cached the watermark month, in a document
\* that holds both sections and entries of QQQ
C28_Reached ==
    /\ call.op = "ensure_benchmark_cache"
    /\ call.symbols = <<"SPY">>
    /\ fetches # <<>>
    /\ Key(Watermark(today)) \in DOMAIN FullMonths(file, "SPY")
    /\ "_meta" \in DOMAIN file
    /\ DOMAIN AlignedOf(file, "QQQ") # {}
    /\ DOMAIN FullMonths(file, "QQQ") # {}

\* C29: a call of ensure_aligned_partials changes at most, in "_aligned", the
\* entries of the symbols passed under the inception month and the current
\* month, and "_meta"; every symbol's full-month map, the aligned entries of
\* the other symbols and those of the other months are in the persisted
\* document after the call exactly as before it. In
\* get_aligned_benchmark_series the full-month map read after the step is the
\* one the step before it, ensure_benchmark_cache, produced.
C29_AlignFrame ==
    [][/\ (call'.op = "ensure_aligned_partials") =>
            /\ \A k \in (DOMAIN file \cup DOMAIN file') \ {"_aligned", "_meta"} :
                    SameAt(file, file', k)
            /\ \A sym \in Symbols \ Passed(call'.symbols) :
                    SameAt(Get(file, "_aligned", EmptyDict), Get(file', "_aligned", EmptyDict), sym)
            /\ \A sym \in Passed(call'.symbols) :
                    \A k \in (DOMAIN AlignedOf(file, sym) \cup DOMAIN AlignedOf(file', sym))
                            \ {Key(MonthOf(call'.inception_date)), Key(MonthOf(call'.current_end))} :
                        SameAt(AlignedOf(file, sym), AlignedOf(file', sym), k)
       /\ (call'.op = "get_aligned_benchmark_series") =>
            \E kind \in MonthlyKinds :
                \A sym \in Symbols :
                    SameAt(ensure_benchmark_cache(exists, file, call'.symbols, call'.months,
                                                  <<kind>>, today).cache,
                           file', sym)]_vars

\* a call for SPY alone wrote SPY's partial of the current month, in a
\* document that holds full-month values, a partial of SPY for a month that is
\* neither the inception nor the current one, and partials of QQQ
C29_Reached ==
    /\ call.op = "ensure_aligned_partials"
    /\ call.symbols = <<"SPY">>
    /\ fetches # <<>>
    /\ Key(MonthOf(call.current_end)) \in DOMAIN AlignedOf(file, "SPY")
    /\ AlignedOf(file, "SPY")[Key(MonthOf(call.current_end))].end = call.current_end
    /\ DOMAIN AlignedOf(file, "SPY") \ {Key(MonthOf(call.inception_date)), Key(MonthOf(call.current_end))} # {}
    /\ DOMAIN FullMonths(file, "SPY") # {}
    /\ DOMAIN AlignedOf(file, "QQQ") # {}

----------------------------------------------------------------------------
\* C30: every record of a symbol's aligned cache, stored under month key K by
\* ensure_aligned_partials in a document that started empty, has its start at
\* or before its end, both of them days of month K, and its as_of equal to
\* its end.
C30_WellFormed ==
    \A sym \in Symbols : \A k \in DOMAIN AlignedOf(file, sym) :
        /\ DateLE(AlignedOf(file, sym)[k].start, AlignedOf(file, sym)[k].end)
        /\ Key(MonthOf(AlignedOf(file, sym)[k].start)) = k
        /\ Key(MonthOf(AlignedOf(file, sym)[k].end)) = k
        /\ AlignedOf(file, sym)[k].as_of = AlignedOf(file, sym)[k].end

\* the aligned cache of SPY holds the partial of the inception month, from
\* the inception date to the month's end, and the partial of a later month,
\* from its first day to a later day of it
C30_Reached ==
    /\ call.op = "ensure_aligned_partials"
    /\ Key(MonthOf(call.inception_date)) \in DOMAIN AlignedOf(file, "SPY")
    /\ AlignedOf(file, "SPY")[Key(MonthOf(call.inception_date))].start = call.inception_date
    /\ MonthOf(call.inception_date) < MonthOf(call.current_end)
    /\ Key(MonthOf(call.current_end)) \in DOMAIN AlignedOf(file, "SPY")
    /\ AlignedOf(file, "SPY")[Key(MonthOf(call.current_end))].end = call.current_end
    /\ DateLT(AlignedOf(file, "SPY")[Key(MonthOf(call.current_end))].start, call.current_end)

====
